---- MODULE Spec2Model ----
(***************************************************************************)
(* KoG2P (src/kog2p/g2p.py): Korean grapheme-to-phone conversion.          *)
(*                                                                         *)
(* A Python string is modelled as a sequence of one-character strings, the *)
(* input text as the sequence of its codepoints (what ord() returns for    *)
(* each character, g2p.py:62-64).  Python indices are zero-based; the      *)
(* sequences here are one-based, and every index that the code computes is *)
(* kept zero-based and shifted at the point of access (At, CharAt).        *)
(***************************************************************************)
EXTENDS Integers, Sequences, FiniteSets, TLC

VARIABLES graphs, pc, idx, iElement, phones, iONS, iNUC, iCOD, romanized,
          ipos, newphones, romanized_bd, prono_prev, prono_new, identical,
          loop_cnt, result

vars == <<graphs, pc, idx, iElement, phones, iONS, iNUC, iCOD, romanized,
          ipos, newphones, romanized_bd, prono_prev, prono_new, identical,
          loop_cnt, result>>

(***************************************************************************)
(* Bounds of the model.                                                    *)
(***************************************************************************)
\* longest input text of the graph2phone/addPhoneBoundary specification
MaxLen == 3
\* longest input text of the full runKoG2P specification
MaxText == 3
\* value at which the model's copy of loop_cnt saturates
MaxLoop == 6

(***************************************************************************)
(* Code tables and constants of graph2phone.                               *)
(***************************************************************************)
hangul_init == 44032
hangul_fin == 55203
base == 44032

ONS == << <<"k","0">>, <<"k","k">>, <<"n","n">>, <<"t","0">>, <<"t","t">>,
          <<"r","r">>, <<"m","m">>, <<"p","0">>, <<"p","p">>, <<"s","0">>,
          <<"s","s">>, <<"o","h">>, <<"c","0">>, <<"c","c">>, <<"c","h">>,
          <<"k","h">>, <<"t","h">>, <<"p","h">>, <<"h","0">> >>

NUC == << <<"a","a">>, <<"q","q">>, <<"y","a">>, <<"y","q">>, <<"v","v">>,
          <<"e","e">>, <<"y","v">>, <<"y","e">>, <<"o","o">>, <<"w","a">>,
          <<"w","q">>, <<"w","o">>, <<"y","o">>, <<"u","u">>, <<"w","v">>,
          <<"w","e">>, <<"w","i">>, <<"y","u">>, <<"x","x">>, <<"x","i">>,
          <<"i","i">> >>

COD == << <<>>, <<"k","f">>, <<"k","k">>, <<"k","s">>, <<"n","f">>,
          <<"n","c">>, <<"n","h">>, <<"t","f">>, <<"l","l">>, <<"l","k">>,
          <<"l","m">>, <<"l","b">>, <<"l","s">>, <<"l","t">>, <<"l","p">>,
          <<"l","h">>, <<"m","f">>, <<"p","f">>, <<"p","s">>, <<"s","0">>,
          <<"s","s">>, <<"o","h">>, <<"c","0">>, <<"c","h">>, <<"k","h">>,
          <<"t","h">>, <<"p","h">>, <<"h","0">> >>

\* list[i] of Python: zero-based, a negative index counts from the end
At(list, i) == IF i >= 0 THEN list[i + 1] ELSE list[Len(list) + i + 1]

\* list[i] raises IndexError outside -len .. len-1
InRange(list, i) == i >= -Len(list) /\ i < Len(list)

(***************************************************************************)
(* Python's re module, as far as g2p.py uses it: a backtracking matcher.   *)
(* A pattern is a tree of nodes; Match keeps the nodes still to be matched *)
(* on a stack, so that the first success in priority order (alternatives   *)
(* left to right, quantifiers greedy) is the match Python finds.           *)
(* Positions are one-based; a group is <<start, end>> (end exclusive) and  *)
(* <<0, 0>> while it has not taken part in the match.                      *)
(* Match, SubFrom, Sub and ApplyRules are functions of the tuple of their  *)
(* arguments: TLC evaluates the argument of a function one time, that of   *)
(* an operator each time the body reads it.                                *)
(***************************************************************************)
Lit(cs) == [k |-> "lit", s |-> cs]
In(S) == [k |-> "in", s |-> S]
NonWord == [k |-> "nonword"]
Dot == [k |-> "any"]
Cat(ns) == [k |-> "cat", a |-> ns]
Alt(ns) == [k |-> "alt", a |-> ns]
Grp(n, r) == [k |-> "grp", n |-> n, r |-> r]
Opt(r) == [k |-> "opt", r |-> r]
Plus(r) == [k |-> "plus", r |-> r]
Ahead(r) == [k |-> "ahead", r |-> r]
Behind(w, r) == [k |-> "behind", w |-> w, r |-> r]
Bol == [k |-> "bol"]
Eol == [k |-> "eol"]

WordChars ==
  {"a","b","c","d","e","f","g","h","i","j","k","l","m","n","o","p","q","r",
   "s","t","u","v","w","x","y","z","0","1","2","3","4","5","6","7","8","9",
   "_"}

NoGroups == [n \in 1..4 |-> <<0, 0>>]

NoMatch == [ok |-> FALSE, e |-> 0, g |-> NoGroups]

\* Match[<<stack, s, i, g>>]: the match of the nodes on stack against s from
\* position i on, the groups matched so far being g
Match[a \in Any] ==
  LET stack == a[1]
      s == a[2]
      i == a[3]
      g == a[4]
  IN
  IF Len(stack) = 0 THEN [ok |-> TRUE, e |-> i, g |-> g]
  ELSE
    LET n == Head(stack)
        rest == Tail(stack)
    IN CASE n.k = "cat" -> Match[<<n.a \o rest, s, i, g>>]
         [] n.k = "lit" ->
              IF i + Len(n.s) - 1 <= Len(s) /\ SubSeq(s, i, i + Len(n.s) - 1) = n.s
              THEN Match[<<rest, s, i + Len(n.s), g>>] ELSE NoMatch
         [] n.k = "grp" ->
              Match[<< <<n.r, [k |-> "end", n |-> n.n, from |-> i]>> \o rest,
                       s, i, g>>]
         [] n.k = "alt" ->
              LET first == Match[<< <<Head(n.a)>> \o rest, s, i, g>>]
              IN IF first.ok \/ Len(n.a) = 1 THEN first
                 ELSE Match[<< <<Alt(Tail(n.a))>> \o rest, s, i, g>>]
         [] n.k = "end" ->
              Match[<<rest, s, i, [g EXCEPT ![n.n] = <<n.from, i>>]>>]
         [] n.k = "in" ->
              IF i <= Len(s) /\ s[i] \in n.s
              THEN Match[<<rest, s, i + 1, g>>] ELSE NoMatch
         [] n.k = "behind" ->
              LET look == IF i - n.w >= 1 THEN Match[<< <<n.r>>, s, i - n.w, g>>]
                          ELSE NoMatch
              IN IF look.ok /\ look.e = i THEN Match[<<rest, s, i, look.g>>]
                 ELSE NoMatch
         [] n.k = "ahead" ->
              LET look == Match[<< <<n.r>>, s, i, g>>]
              IN IF look.ok THEN Match[<<rest, s, i, look.g>>] ELSE NoMatch
         [] n.k = "opt" ->
              LET taken == Match[<< <<n.r>> \o rest, s, i, g>>]
              IN IF taken.ok THEN taken ELSE Match[<<rest, s, i, g>>]
         [] n.k = "plus" ->
              Match[<< <<n.r, [k |-> "star", r |-> n.r]>> \o rest, s, i, g>>]
         [] n.k = "star" ->
              LET more == Match[<< <<n.r, n>> \o rest, s, i, g>>]
              IN IF more.ok THEN more ELSE Match[<<rest, s, i, g>>]
         [] n.k = "nonword" ->
              IF i <= Len(s) /\ s[i] \notin WordChars
              THEN Match[<<rest, s, i + 1, g>>] ELSE NoMatch
         [] n.k = "any" ->
              IF i <= Len(s) THEN Match[<<rest, s, i + 1, g>>] ELSE NoMatch
         [] n.k = "bol" -> IF i = 1 THEN Match[<<rest, s, i, g>>] ELSE NoMatch
         [] n.k = "eol" ->
              IF i = Len(s) + 1 THEN Match[<<rest, s, i, g>>] ELSE NoMatch

\* a replacement template is a sequence of characters and group references
GroupRef(x) ==
  CASE x = "\\1" -> 1 [] x = "\\2" -> 2 [] x = "\\3" -> 3 [] x = "\\4" -> 4
    [] OTHER -> 0

\* the template with each group reference replaced by the group's text
\* (the empty string for a group that did not take part in the match)
RECURSIVE Expand(_, _, _)
Expand(repl, s, g) ==
  IF Len(repl) = 0 THEN <<>>
  ELSE LET x == Head(repl)
           n == GroupRef(x)
       IN (IF n = 0 THEN <<x>>
           ELSE IF g[n][1] = 0 THEN <<>>
           ELSE SubSeq(s, g[n][1], g[n][2] - 1))
          \o Expand(Tail(repl), s, g)

\* SubFrom[<<pattern, repl, s, pos, out, m>>]: re.sub from position pos on,
\* out being the text produced so far and m the match at pos: the leftmost
\* match at or after pos is replaced and the scan goes on behind it
SubFrom[a \in Any] ==
  LET pattern == a[1]
      repl == a[2]
      s == a[3]
      pos == a[4]
      out == a[5]
      m == a[6]
      here == IF pos <= Len(s) THEN <<s[pos]>> ELSE <<>>
      next == IF m.ok /\ m.e > pos THEN m.e ELSE pos + 1
  IN IF pos > Len(s) + 1 THEN out
     ELSE SubFrom[<<pattern, repl, s, next,
                    IF m.ok /\ m.e > pos THEN out \o Expand(repl, s, m.g)
                    ELSE IF m.ok THEN out \o Expand(repl, s, m.g) \o here
                    ELSE out \o here,
                    IF next > Len(s) + 1 THEN NoMatch
                    ELSE Match[<< <<pattern>>, s, next, NoGroups>>]>>]

\* Sub[<<pattern, repl, string>>]: the scan from the first position on
Sub[a \in Any] ==
  SubFrom[<<a[1], a[2], a[3], 1, <<>>, Match[<< <<a[1]>>, a[3], 1, NoGroups>>]>>]

re_sub(pattern, repl, string) == Sub[<<pattern, repl, string>>]

(***************************************************************************)
(* checkCharType and graph2phone.                                          *)
(***************************************************************************)
isHangul(charint) == charint >= hangul_init /\ charint <= hangul_fin

\*  1: whitespace, 0: hangul, -1: non-hangul
checkCharType(var_list) ==
  [i \in 1..Len(var_list) |->
     IF var_list[i] = 32 THEN 1 ELSE IF isHangul(var_list[i]) THEN 0 ELSE -1]

\* Decompose with the onset stride off by one (589 for 588)
DecomposeStride(charint) ==
  LET df == charint - base
  IN [iONS |-> (df \div 589) + 1,
      iNUC |-> ((df % 589) \div 28) + 1,
      iCOD |-> ((df % 589) % 28) + 1]

\* the one-based indices iONS, iNUC, iCOD of a codepoint
Decompose(charint) ==
  LET df == charint - base
  IN [iONS |-> (df \div 588) + 1,
      iNUC |-> ((df % 588) \div 28) + 1,
      iCOD |-> ((df % 588) % 28) + 1]

\* the three table reads of one syllable are inside the tables
LookupOk(d) ==
  /\ InRange(ONS, d.iONS - 1)
  /\ InRange(NUC, d.iNUC - 1)
  /\ InRange(COD, d.iCOD - 1)

\* tmp = s1 + s2 + s3
Syllable(d) ==
  <<"-">> \o At(ONS, d.iONS - 1) \o At(NUC, d.iNUC - 1) \o At(COD, d.iCOD - 1)

\* phones = re.sub('-(oh)', '-', phones)
DropNullOnset(ph) ==
  re_sub(Cat(<<Lit(<<"-">>), Grp(1, Lit(<<"o","h">>))>>), <<"-">>, ph)

\* LoopBody with every character that is not Hangul taken for whitespace
LoopBodyElse(ph, t, charint) ==
  DropNullOnset(IF t = 0 THEN ph \o Syllable(Decompose(charint))
                ELSE ph \o <<"#">>)

\* one pass of the while loop over character charint of type t
LoopBody(ph, t, charint) ==
  DropNullOnset(IF t = 0 THEN ph \o Syllable(Decompose(charint))
                ELSE IF t = 1 THEN ph \o <<"#">>
                ELSE ph)

\* PostProcess without the substitution of line 111 ('oh-' to 'ng-')
PostProcessNoNasal(ph) ==
  LET p1 == re_sub(Cat(<<Bol, Lit(<<"o","h">>)>>), <<>>, ph)
      p2 == re_sub(Cat(<<Lit(<<"-">>), Grp(1, Lit(<<"o","h">>))>>), <<>>, p1)
      p4 == re_sub(Cat(<<Lit(<<"o","h">>),
                         Grp(1, Alt(<<In({"#"," "}), Eol>>))>>),
                   <<"n","g">>, p2)
      p5 == re_sub(Cat(<<Grp(1, Plus(NonWord)), Lit(<<"-">>)>>), <<"\\1">>, p4)
      p6 == re_sub(Cat(<<Plus(NonWord), Eol>>), <<>>, p5)
  IN re_sub(Cat(<<Bol, Lit(<<"-">>)>>), <<>>, p6)

\* PostProcess without the substitution of line 116 (trailing markers)
PostProcessNoTrail(ph) ==
  LET p1 == re_sub(Cat(<<Bol, Lit(<<"o","h">>)>>), <<>>, ph)
      p2 == re_sub(Cat(<<Lit(<<"-">>), Grp(1, Lit(<<"o","h">>))>>), <<>>, p1)
      p3 == re_sub(Lit(<<"o","h","-">>), <<"n","g","-">>, p2)
      p4 == re_sub(Cat(<<Lit(<<"o","h">>),
                         Grp(1, Alt(<<In({"#"," "}), Eol>>))>>),
                   <<"n","g">>, p3)
      p5 == re_sub(Cat(<<Grp(1, Plus(NonWord)), Lit(<<"-">>)>>), <<"\\1">>, p4)
  IN re_sub(Cat(<<Bol, Lit(<<"-">>)>>), <<>>, p5)

\* the substitutions behind the loop, in the code's order
PostProcess(ph) ==
  LET p1 == re_sub(Cat(<<Bol, Lit(<<"o","h">>)>>), <<>>, ph)
      p2 == re_sub(Cat(<<Lit(<<"-">>), Grp(1, Lit(<<"o","h">>))>>), <<>>, p1)
      p3 == re_sub(Lit(<<"o","h","-">>), <<"n","g","-">>, p2)
      p4 == re_sub(Cat(<<Lit(<<"o","h">>),
                         Grp(1, Alt(<<In({"#"," "}), Eol>>))>>),
                   <<"n","g">>, p3)
      p5 == re_sub(Cat(<<Grp(1, Plus(NonWord)), Lit(<<"-">>)>>), <<"\\1">>, p4)
      p6 == re_sub(Cat(<<Plus(NonWord), Eol>>), <<>>, p5)
  IN re_sub(Cat(<<Bol, Lit(<<"-">>)>>), <<>>, p6)

RECURSIVE LoopFrom(_, _, _)
LoopFrom(ints, k, ph) ==
  IF k > Len(ints) THEN ph
  ELSE LoopFrom(ints, k + 1, LoopBody(ph, checkCharType(ints)[k], ints[k]))

\* graph2phone as a function of its argument
graph2phone(text) == PostProcess(LoopFrom(text, 1, <<>>))

(***************************************************************************)
(* The rule tables of runKoG2P, rule by rule in the order of the source.   *)
(***************************************************************************)
rule_in == <<
  \* 0: ii,ll,[#-]y([aeoquv]),
  Cat(<<Lit(<<"i","i",",", "l","l",",">>), In({"#","-"}), Lit(<<"y">>),
  Grp(1, In({"a","e","o","q","u","v"})), Lit(<<",">>)>>),
  \* 1: (h0,aa|t0,xx),ll,-ii,ll,
  Cat(<<Grp(1, Alt(<<Lit(<<"h","0",",", "a","a">>), Lit(<<"t","0",",",
  "x","x">>)>>)), Lit(<<",", "l","l",",", "-", "i","i",",",
  "l","l",",">>)>>),
  \* 2: s0,vv,ll,-ii,kf,
  Lit(<<"s","0",",", "v","v",",", "l","l",",", "-", "i","i",",",
  "k","f",",">>),
  \* 3: mm,uu,ll,-k0,oo,-k0,ii,
  Lit(<<"m","m",",", "u","u",",", "l","l",",", "-", "k","0",",",
  "o","o",",", "-", "k","0",",", "i","i",",">>),
  \* 4: s0,ii,ll,-s0,ii,ll
  Lit(<<"s","0",",", "i","i",",", "l","l",",", "-", "s","0",",",
  "i","i",",", "l","l">>),
  \* 5: k0,ii,-s0,xx,lk,
  Lit(<<"k","0",",", "i","i",",", "-", "s","0",",", "x","x",",",
  "l","k",",">>),
  \* 6: c0,vv,ll,-ya,kf,
  Lit(<<"c","0",",", "v","v",",", "l","l",",", "-", "y","a",",",
  "k","f",",">>),
  \* 7: k0,xx,mf,-yo,-ii,ll,
  Lit(<<"k","0",",", "x","x",",", "m","f",",", "-", "y","o",",", "-",
  "i","i",",", "l","l",",">>),
  \* 8: lt,-ii,
  Lit(<<"l","t",",", "-", "i","i",",">>),
  \* 9: (?<=nn,vv,)lb,(?=-(c0,(uu|vv),kf|t0,(uu|vv),ng))
  Cat(<<Behind(6, Lit(<<"n","n",",", "v","v",",">>)), Lit(<<"l","b",",">>),
  Ahead(Cat(<<Lit(<<"-">>), Grp(1, Alt(<<Cat(<<Lit(<<"c","0",",">>), Grp(2,
  Alt(<<Lit(<<"u","u">>), Lit(<<"v","v">>)>>)), Lit(<<",", "k","f">>)>>),
  Cat(<<Lit(<<"t","0",",">>), Grp(3, Alt(<<Lit(<<"u","u">>),
  Lit(<<"v","v">>)>>)), Lit(<<",", "n","g">>)>>)>>))>>))>>),
  \* 10: (?<=s0,ii,)lh,-c0,(?=xx,ng)
  Cat(<<Behind(6, Lit(<<"s","0",",", "i","i",",">>)), Lit(<<"l","h",",",
  "-", "c","0",",">>), Ahead(Lit(<<"x","x",",", "n","g">>))>>),
  \* 11: t0,aa,lk,
  Lit(<<"t","0",",", "a","a",",", "l","k",",">>),
  \* 12: (wq|we|oo),nf,-k0,aa,c0,
  Cat(<<Grp(1, Alt(<<Lit(<<"w","q">>), Lit(<<"w","e">>),
  Lit(<<"o","o">>)>>)), Lit(<<",", "n","f",",", "-", "k","0",",",
  "a","a",",", "c","0",",">>)>>),
  \* 13: mm,aa,tf,-h0,yv,ng,
  Lit(<<"m","m",",", "a","a",",", "t","f",",", "-", "h","0",",",
  "y","v",",", "n","g",",">>),
  \* 14: k0,vv,th,-oo,s0,
  Lit(<<"k","0",",", "v","v",",", "t","h",",", "-", "o","o",",",
  "s","0",",">>),
  \* 15: c0,uu,ll,-nn,vv,mf,-k0,ii,
  Lit(<<"c","0",",", "u","u",",", "l","l",",", "-", "n","n",",",
  "v","v",",", "m","f",",", "-", "k","0",",", "i","i",",">>),
  \* 16: h0,oo,th,-ii,-p0,uu,ll,
  Lit(<<"h","0",",", "o","o",",", "t","h",",", "-", "i","i",",", "-",
  "p","0",",", "u","u",",", "l","l",",">>),
  \* 17: s0,aa,ks,-ii,ll,
  Lit(<<"s","0",",", "a","a",",", "k","s",",", "-", "i","i",",",
  "l","l",",">>),
  \* 18: mm,qq,nf,-ii,pf,
  Lit(<<"m","m",",", "q","q",",", "n","f",",", "-", "i","i",",",
  "p","f",",">>),
  \* 19: kk,oo,ch,-ii,ph,
  Lit(<<"k","k",",", "o","o",",", "c","h",",", "-", "i","i",",",
  "p","h",",">>),
  \* 20: nn,qq,-p0,oo,kf,-ya,kf,
  Lit(<<"n","n",",", "q","q",",", "-", "p","0",",", "o","o",",",
  "k","f",",", "-", "y","a",",", "k","f",",">>),
  \* 21: h0,aa,nf,-yv,-rr,xx,mf,
  Lit(<<"h","0",",", "a","a",",", "n","f",",", "-", "y","v",",", "-",
  "r","r",",", "x","x",",", "m","f",",">>),
  \* 22: nn,aa,mf,-c0,oo,nf,-yv,-p0,ii,
  Lit(<<"n","n",",", "a","a",",", "m","f",",", "-", "c","0",",",
  "o","o",",", "n","f",",", "-", "y","v",",", "-", "p","0",",",
  "i","i",",">>),
  \* 23: s0,ii,nf,-yv,-s0,vv,ng,
  Lit(<<"s","0",",", "i","i",",", "n","f",",", "-", "y","v",",", "-",
  "s","0",",", "v","v",",", "n","g",",">>),
  \* 24: s0,qq,kf,-yv,nf,-ph,ii,ll,
  Lit(<<"s","0",",", "q","q",",", "k","f",",", "-", "y","v",",",
  "n","f",",", "-", "p","h",",", "i","i",",", "l","l",",">>),
  \* 25: t0,aa,mf,-yo,
  Lit(<<"t","0",",", "a","a",",", "m","f",",", "-", "y","o",",">>),
  \* 26: nn,uu,nf,-yo,-k0,ii,
  Lit(<<"n","n",",", "u","u",",", "n","f",",", "-", "y","o",",", "-",
  "k","0",",", "i","i",",">>),
  \* 27: vv,pf,-yo,ng,
  Lit(<<"v","v",",", "p","f",",", "-", "y","o",",", "n","g",",">>),
  \* 28: s0,ii,kf,-yo,ng,-yu,
  Lit(<<"s","0",",", "i","i",",", "k","f",",", "-", "y","o",",",
  "n","g",",", "-", "y","u",",">>),
  \* 29: nf,-yu,nf,-rr,ii,
  Lit(<<"n","f",",", "-", "y","u",",", "n","f",",", "-", "r","r",",",
  "i","i",",">>),
  \* 30: (c0|s0),(aa|oo|uu),ll,-ii,(ph|p0|pf),
  Cat(<<Grp(1, Alt(<<Lit(<<"c","0">>), Lit(<<"s","0">>)>>)), Lit(<<",">>),
  Grp(2, Alt(<<Lit(<<"a","a">>), Lit(<<"o","o">>), Lit(<<"u","u">>)>>)),
  Lit(<<",", "l","l",",", "-", "i","i",",">>), Grp(3,
  Alt(<<Lit(<<"p","h">>), Lit(<<"p","0">>), Lit(<<"p","f">>)>>)),
  Lit(<<",">>)>>),
  \* 31: (?=(^|#))h0,aa,nf,-ii,ll,
  Cat(<<Ahead(Grp(1, Alt(<<Bol, Lit(<<"#">>)>>))), Lit(<<"h","0",",",
  "a","a",",", "n","f",",", "-", "i","i",",", "l","l",",">>)>>),
  \* 32: (?=(^|#))mm,aa,kf,-ii,ll,
  Cat(<<Ahead(Grp(1, Alt(<<Bol, Lit(<<"#">>)>>))), Lit(<<"m","m",",",
  "a","a",",", "k","f",",", "-", "i","i",",", "l","l",",">>)>>),
  \* 33: mm,oo,ll,-s0,aa,ng,-s0,ii,kf,
  Lit(<<"m","m",",", "o","o",",", "l","l",",", "-", "s","0",",",
  "a","a",",", "n","g",",", "-", "s","0",",", "i","i",",", "k","f",",">>),
  \* 34: oo,s0,#ii,pf,
  Lit(<<"o","o",",", "s","0",",", "#", "i","i",",", "p","f",",">>),
  \* 35: (nf|ll),-yv,-s0,vv,-s0,
  Cat(<<Grp(1, Alt(<<Lit(<<"n","f">>), Lit(<<"l","l">>)>>)), Lit(<<",", "-",
  "y","v",",", "-", "s","0",",", "v","v",",", "-", "s","0",",">>)>>),
  \* 36: (ng|mf|nf),-y([aeoquv]),
  Cat(<<Grp(1, Alt(<<Lit(<<"n","g">>), Lit(<<"m","f">>),
  Lit(<<"n","f">>)>>)), Lit(<<",", "-", "y">>), Grp(2,
  In({"a","e","o","q","u","v"})), Lit(<<",">>)>>),
  \* 37: (wv|ii),ll,-y([aeoquv]),
  Cat(<<Grp(1, Alt(<<Lit(<<"w","v">>), Lit(<<"i","i">>)>>)), Lit(<<",",
  "l","l",",", "-", "y">>), Grp(2, In({"a","e","o","q","u","v"})),
  Lit(<<",">>)>>),
  \* 38: ll,-y([aeoquv]),
  Cat(<<Lit(<<"l","l",",", "-", "y">>), Grp(1,
  In({"a","e","o","q","u","v"})), Lit(<<",">>)>>),
  \* 39: ii,ll,-c0,vv,ll,
  Lit(<<"i","i",",", "l","l",",", "-", "c","0",",", "v","v",",",
  "l","l",",">>),
  \* 40: (th|tf|s0),-y([aeoquv]),
  Cat(<<Grp(1, Alt(<<Lit(<<"t","h">>), Lit(<<"t","f">>),
  Lit(<<"s","0">>)>>)), Lit(<<",", "-", "y">>), Grp(2,
  In({"a","e","o","q","u","v"})), Lit(<<",">>)>>),
  \* 41: (<=^|#)mm,aa,kf,-ii,ll
  Cat(<<Grp(1, Alt(<<Cat(<<Lit(<<"<","=">>), Bol>>), Lit(<<"#">>)>>)),
  Lit(<<"m","m",",", "a","a",",", "k","f",",", "-", "i","i",",",
  "l","l">>)>>),
  \* 42: k0,uu,-k0,xx,nf,-rr,yu,
  Lit(<<"k","0",",", "u","u",",", "-", "k","0",",", "x","x",",",
  "n","f",",", "-", "r","r",",", "y","u",",">>),
  \* 43: k0,aa,ll,-([ct])0,xx,ng,
  Cat(<<Lit(<<"k","0",",", "a","a",",", "l","l",",", "-">>), Grp(1,
  In({"c","t"})), Lit(<<"0",",", "x","x",",", "n","g",",">>)>>),
  \* 44: p0,aa,ll,-t0,oo,ng,
  Lit(<<"p","0",",", "a","a",",", "l","l",",", "-", "t","0",",",
  "o","o",",", "n","g",",">>),
  \* 45: c0,vv,ll,-t0,oo,
  Lit(<<"c","0",",", "v","v",",", "l","l",",", "-", "t","0",",",
  "o","o",",">>),
  \* 46: mm,aa,ll,-s0,aa,ll,
  Lit(<<"m","m",",", "a","a",",", "l","l",",", "-", "s","0",",",
  "a","a",",", "l","l",",">>),
  \* 47: p0,uu,ll,-s0,
  Lit(<<"p","0",",", "u","u",",", "l","l",",", "-", "s","0",",">>),
  \* 48: ii,ll,-s0,ii,
  Lit(<<"i","i",",", "l","l",",", "-", "s","0",",", "i","i",",">>),
  \* 49: p0,aa,ll,-c0,vv,nf,
  Lit(<<"p","0",",", "a","a",",", "l","l",",", "-", "c","0",",",
  "v","v",",", "n","f",",">>),
  \* 50: (?<=(s0,ii,nf,|s0,aa,mf,)-)(c|k|t)0,
  Cat(<<Behind(10, Cat(<<Grp(1, Alt(<<Lit(<<"s","0",",", "i","i",",",
  "n","f",",">>), Lit(<<"s","0",",", "a","a",",", "m","f",",">>)>>)),
  Lit(<<"-">>)>>)), Grp(2, Alt(<<Lit(<<"c">>), Lit(<<"k">>),
  Lit(<<"t">>)>>)), Lit(<<"0",",">>)>>),
  \* 51: (?<=k0,ii,mf,-)p0,
  Cat(<<Behind(10, Lit(<<"k","0",",", "i","i",",", "m","f",",", "-">>)),
  Lit(<<"p","0",",">>)>>),
  \* 52: (?<=t0,vv,-t0,xx,mf,-)c0,
  Cat(<<Behind(17, Lit(<<"t","0",",", "v","v",",", "-", "t","0",",",
  "x","x",",", "m","f",",", "-">>)), Lit(<<"c","0",",">>)>>),
  \* 53: c0,aa,mf,-c0,aa,-rr,ii,
  Lit(<<"c","0",",", "a","a",",", "m","f",",", "-", "c","0",",",
  "a","a",",", "-", "r","r",",", "i","i",",">>),
  \* 54: (?<=(ng|ll),-)c0,(?=uu,ll,-k0,ii)
  Cat(<<Behind(4, Cat(<<Grp(1, Alt(<<Lit(<<"n","g">>), Lit(<<"l","l">>)>>)),
  Lit(<<",", "-">>)>>)), Lit(<<"c","0",",">>), Ahead(Lit(<<"u","u",",",
  "l","l",",", "-", "k","0",",", "i","i">>))>>),
  \* 55: (?<=(nf|ll),-)p0,vv,pf,
  Cat(<<Behind(4, Cat(<<Grp(1, Alt(<<Lit(<<"n","f">>), Lit(<<"l","l">>)>>)),
  Lit(<<",", "-">>)>>)), Lit(<<"p","0",",", "v","v",",", "p","f",",">>)>>),
  \* 56: (?<=(nf|tf),-)p0,(?=aa,-rr,aa,mf)
  Cat(<<Behind(4, Cat(<<Grp(1, Alt(<<Lit(<<"n","f">>), Lit(<<"t","f">>)>>)),
  Lit(<<",", "-">>)>>)), Lit(<<"p","0",",">>), Ahead(Lit(<<"a","a",",", "-",
  "r","r",",", "a","a",",", "m","f">>))>>),
  \* 57: p0,aa,-rr,aa,mf,-k0,yv,ll,
  Lit(<<"p","0",",", "a","a",",", "-", "r","r",",", "a","a",",",
  "m","f",",", "-", "k","0",",", "y","v",",", "l","l",",">>),
  \* 58: (?<=(mf|kf),-)p0,(?=aa,pf,)
  Cat(<<Behind(4, Cat(<<Grp(1, Alt(<<Lit(<<"m","f">>), Lit(<<"k","f">>)>>)),
  Lit(<<",", "-">>)>>)), Lit(<<"p","0",",">>), Ahead(Lit(<<"a","a",",",
  "p","f",",">>))>>),
  \* 59: (?<=nn,uu,nf,-)t0,
  Cat(<<Behind(10, Lit(<<"n","n",",", "u","u",",", "n","f",",", "-">>)),
  Lit(<<"t","0",",">>)>>),
  \* 60: mm,aa,kf,-yv,mf,
  Lit(<<"m","m",",", "a","a",",", "k","f",",", "-", "y","v",",",
  "m","f",",">>),
  \* 61: p0,aa,lb,-(t|k)0,
  Cat(<<Lit(<<"p","0",",", "a","a",",", "l","b",",", "-">>), Grp(1,
  Alt(<<Lit(<<"t">>), Lit(<<"k">>)>>)), Lit(<<"0",",">>)>>),
  \* 62: p0,aa,lb,-nn,
  Lit(<<"p","0",",", "a","a",",", "l","b",",", "-", "n","n",",">>),
  \* 63: nn,vv,lb,-(t|k)0,
  Cat(<<Lit(<<"n","n",",", "v","v",",", "l","b",",", "-">>), Grp(1,
  Alt(<<Lit(<<"t">>), Lit(<<"k">>)>>)), Lit(<<"0",",">>)>>),
  \* 64: mm,(aa|vv),s0,-ii,ss,-t0,aa,
  Cat(<<Lit(<<"m","m",",">>), Grp(1, Alt(<<Lit(<<"a","a">>),
  Lit(<<"v","v">>)>>)), Lit(<<",", "s","0",",", "-", "i","i",",",
  "s","s",",", "-", "t","0",",", "a","a",",">>)>>),
  \* 65: mm,(aa|vv),s0,-vv,ps,-t0,aa,
  Cat(<<Lit(<<"m","m",",">>), Grp(1, Alt(<<Lit(<<"a","a">>),
  Lit(<<"v","v">>)>>)), Lit(<<",", "s","0",",", "-", "v","v",",",
  "p","s",",", "-", "t","0",",", "a","a",",">>)>>),
  \* 66: c0,vv,c0,-vv,-mm,ii,
  Lit(<<"c","0",",", "v","v",",", "c","0",",", "-", "v","v",",", "-",
  "m","m",",", "i","i",",">>),
  \* 67: h0,vv,s0,-uu,s0,-xx,mf,
  Lit(<<"h","0",",", "v","v",",", "s","0",",", "-", "u","u",",",
  "s","0",",", "-", "x","x",",", "m","f",",">>),
  \* 68: k0,aa,ps,-vv,-ch,ii,
  Lit(<<"k","0",",", "a","a",",", "p","s",",", "-", "v","v",",", "-",
  "c","h",",", "i","i",",">>),
  \* 69: k0,aa,ps,-ii,ss,-nn,xx,nf,
  Lit(<<"k","0",",", "a","a",",", "p","s",",", "-", "i","i",",",
  "s","s",",", "-", "n","n",",", "x","x",",", "n","f",",">>),
  \* 70: c0,vv,lm,-c0,ii,
  Lit(<<"c","0",",", "v","v",",", "l","m",",", "-", "c","0",",",
  "i","i",",">>),
  \* 71: oo,lm,-k0,(?=[iy])
  Cat(<<Lit(<<"o","o",",", "l","m",",", "-", "k","0",",">>),
  Ahead(In({"i","y"}))>>),
  \* 72: k0,uu,lm,-k0,ii,-t0,aa,
  Lit(<<"k","0",",", "u","u",",", "l","m",",", "-", "k","0",",",
  "i","i",",", "-", "t","0",",", "a","a",",">>),
  \* 73: (nn|k0|h0),aa,ll,-(p|s|c|k|t)0,
  Cat(<<Grp(1, Alt(<<Lit(<<"n","n">>), Lit(<<"k","0">>),
  Lit(<<"h","0">>)>>)), Lit(<<",", "a","a",",", "l","l",",", "-">>), Grp(2,
  Alt(<<Lit(<<"p">>), Lit(<<"s">>), Lit(<<"c">>), Lit(<<"k">>),
  Lit(<<"t">>)>>)), Lit(<<"0",",">>)>>),
  \* 74: ch,vv,s0,-ii,nf,
  Lit(<<"c","h",",", "v","v",",", "s","0",",", "-", "i","i",",",
  "n","f",",">>),
  \* 75: (?<=(mf|nf),-)ii,-p0,uu,ll,
  Cat(<<Behind(4, Cat(<<Grp(1, Alt(<<Lit(<<"m","f">>), Lit(<<"n","f">>)>>)),
  Lit(<<",", "-">>)>>)), Lit(<<"i","i",",", "-", "p","0",",", "u","u",",",
  "l","l",",">>)>>),
  \* 76: (?<=(nf|ll),-)k0,oo,-rr,ii,
  Cat(<<Behind(4, Cat(<<Grp(1, Alt(<<Lit(<<"n","f">>), Lit(<<"l","l">>)>>)),
  Lit(<<",", "-">>)>>)), Lit(<<"k","0",",", "o","o",",", "-", "r","r",",",
  "i","i",",">>)>>),
  \* 77: (?<=(nf|ll),-)s0,qq,
  Cat(<<Behind(4, Cat(<<Grp(1, Alt(<<Lit(<<"n","f">>), Lit(<<"l","l">>)>>)),
  Lit(<<",", "-">>)>>)), Lit(<<"s","0",",", "q","q",",">>)>>),
  \* 78: (?<=(nf|ll),-)c0,qq,-c0,uu,
  Cat(<<Behind(4, Cat(<<Grp(1, Alt(<<Lit(<<"n","f">>), Lit(<<"l","l">>)>>)),
  Lit(<<",", "-">>)>>)), Lit(<<"c","0",",", "q","q",",", "-", "c","0",",",
  "u","u",",">>)>>),
  \* 79: k0,ii,ll,-k0,aa,
  Lit(<<"k","0",",", "i","i",",", "l","l",",", "-", "k","0",",",
  "a","a",",">>),
  \* 80: mm,uu,ll,-t0,oo,ng,-ii,
  Lit(<<"m","m",",", "u","u",",", "l","l",",", "-", "t","0",",",
  "o","o",",", "n","g",",", "-", "i","i",",">>),
  \* 81: mm,uu,ll,-c0,
  Lit(<<"m","m",",", "u","u",",", "l","l",",", "-", "c","0",",">>),
  \* 82: (?<=(nf|ll),-)p0,aa,-t0,aa,kf,
  Cat(<<Behind(4, Cat(<<Grp(1, Alt(<<Lit(<<"n","f">>), Lit(<<"l","l">>)>>)),
  Lit(<<",", "-">>)>>)), Lit(<<"p","0",",", "a","a",",", "-", "t","0",",",
  "a","a",",", "k","f",",">>)>>),
  \* 83: (?<=(nf|ll),-)s0,oo,kf,
  Cat(<<Behind(4, Cat(<<Grp(1, Alt(<<Lit(<<"n","f">>), Lit(<<"l","l">>)>>)),
  Lit(<<",", "-">>)>>)), Lit(<<"s","0",",", "o","o",",", "k","f",",">>)>>),
  \* 84: (?<=s0,uu,ll,-)(c|p|t)0,
  Cat(<<Behind(10, Lit(<<"s","0",",", "u","u",",", "l","l",",", "-">>)),
  Grp(1, Alt(<<Lit(<<"c">>), Lit(<<"p">>), Lit(<<"t">>)>>)),
  Lit(<<"0",",">>)>>),
  \* 85: k0,aa,ng,-k0,aa,
  Lit(<<"k","0",",", "a","a",",", "n","g",",", "-", "k","0",",",
  "a","a",",">>),
  \* 86: (?<=(ng|mf),-)t0,aa,ll,
  Cat(<<Behind(4, Cat(<<Grp(1, Alt(<<Lit(<<"n","g">>), Lit(<<"m","f">>)>>)),
  Lit(<<",", "-">>)>>)), Lit(<<"t","0",",", "a","a",",", "l","l",",">>)>>),
  \* 87: t0,xx,ng,-p0,uu,ll,
  Lit(<<"t","0",",", "x","x",",", "n","g",",", "-", "p","0",",",
  "u","u",",", "l","l",",">>),
  \* 88: ch,aa,ng,-s0,aa,ll,
  Lit(<<"c","h",",", "a","a",",", "n","g",",", "-", "s","0",",",
  "a","a",",", "l","l",",">>),
  \* 89: (?<=(ll|ng),-)c0,uu,ll,-k0,ii,
  Cat(<<Behind(4, Cat(<<Grp(1, Alt(<<Lit(<<"l","l">>), Lit(<<"n","g">>)>>)),
  Lit(<<",", "-">>)>>)), Lit(<<"c","0",",", "u","u",",", "l","l",",", "-",
  "k","0",",", "i","i",",">>)>>),
  \* 90: aa,nf,-k0,oo,
  Lit(<<"a","a",",", "n","f",",", "-", "k","0",",", "o","o",",">>),
  \* 91: (?<=kk,yv,-aa,nf,-)(t|c)0,
  Cat(<<Behind(14, Lit(<<"k","k",",", "y","v",",", "-", "a","a",",",
  "n","f",",", "-">>)), Grp(1, Alt(<<Lit(<<"t">>), Lit(<<"c">>)>>)),
  Lit(<<"0",",">>)>>),
  \* 92: ii,-c0,uu,kf,-ii,-c0,uu,kf,
  Lit(<<"i","i",",", "-", "c","0",",", "u","u",",", "k","f",",", "-",
  "i","i",",", "-", "c","0",",", "u","u",",", "k","f",",">>),
  \* 93: ya,-k0,xx,mf,-ya,-k0,xx,mf,
  Lit(<<"y","a",",", "-", "k","0",",", "x","x",",", "m","f",",", "-",
  "y","a",",", "-", "k","0",",", "x","x",",", "m","f",",">>),
  \* 94: p0,ee,-k0,qq,s0,-ii,s0,
  Lit(<<"p","0",",", "e","e",",", "-", "k","0",",", "q","q",",",
  "s","0",",", "-", "i","i",",", "s","0",",">>),
  \* 95: kk,qq,s0,-ii,ph,
  Lit(<<"k","k",",", "q","q",",", "s","0",",", "-", "i","i",",",
  "p","h",",">>),
  \* 96: nn,aa,-mm,uu,s0,-ii,ph,
  Lit(<<"n","n",",", "a","a",",", "-", "m","m",",", "u","u",",",
  "s","0",",", "-", "i","i",",", "p","h",",">>),
  \* 97: qq,s0,-yv,ll,
  Lit(<<"q","q",",", "s","0",",", "-", "y","v",",", "l","l",",">>),
  \* 98: t0,wi,s0,-(?=[aeqiouyvwx])
  Cat(<<Lit(<<"t","0",",", "w","i",",", "s","0",",", "-">>),
  Ahead(In({"a","e","q","i","o","u","y","v","w","x"}))>>),
  \* 99: nn,xx,c0,-yv,-rr,xx,mf,
  Lit(<<"n","n",",", "x","x",",", "c","0",",", "-", "y","v",",", "-",
  "r","r",",", "x","x",",", "m","f",",">>),
  \* 100: t0,ii,-k0,xx,tf,-(ii|xx|ee),
  Cat(<<Lit(<<"t","0",",", "i","i",",", "-", "k","0",",", "x","x",",",
  "t","f",",", "-">>), Grp(1, Alt(<<Lit(<<"i","i">>), Lit(<<"x","x">>),
  Lit(<<"e","e">>)>>)), Lit(<<",">>)>>),
  \* 101: (c0|ch|th|h0),ii,-xx,(c0|ch|th|h0),-(ii|xx|ee),
  Cat(<<Grp(1, Alt(<<Lit(<<"c","0">>), Lit(<<"c","h">>), Lit(<<"t","h">>),
  Lit(<<"h","0">>)>>)), Lit(<<",", "i","i",",", "-", "x","x",",">>), Grp(2,
  Alt(<<Lit(<<"c","0">>), Lit(<<"c","h">>), Lit(<<"t","h">>),
  Lit(<<"h","0">>)>>)), Lit(<<",", "-">>), Grp(3, Alt(<<Lit(<<"i","i">>),
  Lit(<<"x","x">>), Lit(<<"e","e">>)>>)), Lit(<<",">>)>>),
  \* 102: ph,ii,-xx,ph,-(ii|xx|ee),
  Cat(<<Lit(<<"p","h",",", "i","i",",", "-", "x","x",",", "p","h",",",
  "-">>), Grp(1, Alt(<<Lit(<<"i","i">>), Lit(<<"x","x">>),
  Lit(<<"e","e">>)>>)), Lit(<<",">>)>>),
  \* 103: kh,ii,-xx,kh,-(ii|xx|ee),
  Cat(<<Lit(<<"k","h",",", "i","i",",", "-", "x","x",",", "k","h",",",
  "-">>), Grp(1, Alt(<<Lit(<<"i","i">>), Lit(<<"x","x">>),
  Lit(<<"e","e">>)>>)), Lit(<<",">>)>>),
  \* 104: l(b|p),-h0,
  Cat(<<Lit(<<"l">>), Grp(1, Alt(<<Lit(<<"b">>), Lit(<<"p">>)>>)),
  Lit(<<",", "-", "h","0",",">>)>>),
  \* 105: nh,-(c|k|t)0,
  Cat(<<Lit(<<"n","h",",", "-">>), Grp(1, Alt(<<Lit(<<"c">>), Lit(<<"k">>),
  Lit(<<"t">>)>>)), Lit(<<"0",",">>)>>),
  \* 106: lh,-(c|k|t)0,
  Cat(<<Lit(<<"l","h",",", "-">>), Grp(1, Alt(<<Lit(<<"c">>), Lit(<<"k">>),
  Lit(<<"t">>)>>)), Lit(<<"0",",">>)>>),
  \* 107: lk,-h0,
  Lit(<<"l","k",",", "-", "h","0",",">>),
  \* 108: nc,-h0,
  Lit(<<"n","c",",", "-", "h","0",",">>),
  \* 109: (k0,aa,|k0,uu,|k0,vv,|oo,|p0,aa,|nn,aa,|nn,xx,|p0,uu,|^ii,|-,ii,mm,aa,|mm,uu,|(^|-,)vv,)lk,-(t0|c0|s0),
  Cat(<<Grp(1, Alt(<<Lit(<<"k","0",",", "a","a",",">>), Lit(<<"k","0",",",
  "u","u",",">>), Lit(<<"k","0",",", "v","v",",">>), Lit(<<"o","o",",">>),
  Lit(<<"p","0",",", "a","a",",">>), Lit(<<"n","n",",", "a","a",",">>),
  Lit(<<"n","n",",", "x","x",",">>), Lit(<<"p","0",",", "u","u",",">>),
  Cat(<<Bol, Lit(<<"i","i",",">>)>>), Lit(<<"-", ",", "i","i",",",
  "m","m",",", "a","a",",">>), Lit(<<"m","m",",", "u","u",",">>),
  Cat(<<Grp(2, Alt(<<Bol, Lit(<<"-", ",">>)>>)),
  Lit(<<"v","v",",">>)>>)>>)), Lit(<<"l","k",",", "-">>), Grp(3,
  Alt(<<Lit(<<"t","0">>), Lit(<<"c","0">>), Lit(<<"s","0">>)>>)),
  Lit(<<",">>)>>),
  \* 110: (k0,aa,|k0,uu,|k0,vv,|vv,|oo,|mm,aa,|p0,aa,|nn,aa,|nn,xx,|mm,uu,|p0,uu,|^ii,|-,ii,)lk,-k0,
  Cat(<<Grp(1, Alt(<<Lit(<<"k","0",",", "a","a",",">>), Lit(<<"k","0",",",
  "u","u",",">>), Lit(<<"k","0",",", "v","v",",">>), Lit(<<"v","v",",">>),
  Lit(<<"o","o",",">>), Lit(<<"m","m",",", "a","a",",">>),
  Lit(<<"p","0",",", "a","a",",">>), Lit(<<"n","n",",", "a","a",",">>),
  Lit(<<"n","n",",", "x","x",",">>), Lit(<<"m","m",",", "u","u",",">>),
  Lit(<<"p","0",",", "u","u",",">>), Cat(<<Bol, Lit(<<"i","i",",">>)>>),
  Lit(<<"-", ",", "i","i",",">>)>>)), Lit(<<"l","k",",", "-",
  "k","0",",">>)>>),
  \* 111: nh,-(k|t|c)0,
  Cat(<<Lit(<<"n","h",",", "-">>), Grp(1, Alt(<<Lit(<<"k">>), Lit(<<"t">>),
  Lit(<<"c">>)>>)), Lit(<<"0",",">>)>>),
  \* 112: nh,-s0,
  Lit(<<"n","h",",", "-", "s","0",",">>),
  \* 113: nh,-nn,
  Lit(<<"n","h",",", "-", "n","n",",">>),
  \* 114: nh,-(?=[aeqiouyvwx])
  Cat(<<Lit(<<"n","h",",", "-">>),
  Ahead(In({"a","e","q","i","o","u","y","v","w","x"}))>>),
  \* 115: lh,-nn,
  Lit(<<"l","h",",", "-", "n","n",",">>),
  \* 116: lh,-(k|t|c)0,
  Cat(<<Lit(<<"l","h",",", "-">>), Grp(1, Alt(<<Lit(<<"k">>), Lit(<<"t">>),
  Lit(<<"c">>)>>)), Lit(<<"0",",">>)>>),
  \* 117: lh,-s0,
  Lit(<<"l","h",",", "-", "s","0",",">>),
  \* 118: lh,-(?=[aeqiouyvwx])
  Cat(<<Lit(<<"l","h",",", "-">>),
  Ahead(In({"a","e","q","i","o","u","y","v","w","x"}))>>),
  \* 119: nc,-([ktsc])0,
  Cat(<<Lit(<<"n","c",",", "-">>), Grp(1, In({"k","t","s","c"})),
  Lit(<<"0",",">>)>>),
  \* 120: (c0,vv,|c0,ii,|k0,uu,|t0,aa,|(^|-,)oo,|k0,oo,)lm,-([ktsc])0,
  Cat(<<Grp(1, Alt(<<Lit(<<"c","0",",", "v","v",",">>), Lit(<<"c","0",",",
  "i","i",",">>), Lit(<<"k","0",",", "u","u",",">>), Lit(<<"t","0",",",
  "a","a",",">>), Cat(<<Grp(2, Alt(<<Bol, Lit(<<"-", ",">>)>>)),
  Lit(<<"o","o",",">>)>>), Lit(<<"k","0",",", "o","o",",">>)>>)),
  Lit(<<"l","m",",", "-">>), Grp(3, In({"k","t","s","c"})),
  Lit(<<"0",",">>)>>),
  \* 121: (p0,aa,|tt,vv,|(^|-,)yv,|nn,vv,|(^|-,)ya,|cc,aa,)lb,-([ktsc])0,
  Cat(<<Grp(1, Alt(<<Lit(<<"p","0",",", "a","a",",">>), Lit(<<"t","t",",",
  "v","v",",">>), Cat(<<Grp(2, Alt(<<Bol, Lit(<<"-", ",">>)>>)),
  Lit(<<"y","v",",">>)>>), Lit(<<"n","n",",", "v","v",",">>), Cat(<<Grp(3,
  Alt(<<Bol, Lit(<<"-", ",">>)>>)), Lit(<<"y","a",",">>)>>),
  Lit(<<"c","c",",", "a","a",",">>)>>)), Lit(<<"l","b",",", "-">>), Grp(4,
  In({"k","t","s","c"})), Lit(<<"0",",">>)>>),
  \* 122: h0,(aa|uu),lt,-nn,
  Cat(<<Lit(<<"h","0",",">>), Grp(1, Alt(<<Lit(<<"a","a">>),
  Lit(<<"u","u">>)>>)), Lit(<<",", "l","t",",", "-", "n","n",",">>)>>),
  \* 123: h0,(aa|uu),lt,-([ktsc])0,
  Cat(<<Lit(<<"h","0",",">>), Grp(1, Alt(<<Lit(<<"a","a">>),
  Lit(<<"u","u">>)>>)), Lit(<<",", "l","t",",", "-">>), Grp(2,
  In({"k","t","s","c"})), Lit(<<"0",",">>)>>),
  \* 124: lk,-(c|k|p|s|t)0,
  Cat(<<Lit(<<"l","k",",", "-">>), Grp(1, Alt(<<Lit(<<"c">>), Lit(<<"k">>),
  Lit(<<"p">>), Lit(<<"s">>), Lit(<<"t">>)>>)), Lit(<<"0",",">>)>>),
  \* 125: l(b|p),-p0,
  Cat(<<Lit(<<"l">>), Grp(1, Alt(<<Lit(<<"b">>), Lit(<<"p">>)>>)),
  Lit(<<",", "-", "p","0",",">>)>>),
  \* 126: s0,-p0,
  Lit(<<"s","0",",", "-", "p","0",",">>),
  \* 127: l(b|t),-(c|k|s|t|p)0,
  Cat(<<Lit(<<"l">>), Grp(1, Alt(<<Lit(<<"b">>), Lit(<<"t">>)>>)),
  Lit(<<",", "-">>), Grp(2, Alt(<<Lit(<<"c">>), Lit(<<"k">>), Lit(<<"s">>),
  Lit(<<"t">>), Lit(<<"p">>)>>)), Lit(<<"0",",">>)>>),
  \* 128: lp,-(c|k|s|t)0,
  Cat(<<Lit(<<"l","p",",", "-">>), Grp(1, Alt(<<Lit(<<"c">>), Lit(<<"k">>),
  Lit(<<"s">>), Lit(<<"t">>)>>)), Lit(<<"0",",">>)>>),
  \* 129: (c[h0]|s[s0]|t[fh]),-(c|k|s|t)0,
  Cat(<<Grp(1, Alt(<<Cat(<<Lit(<<"c">>), In({"h","0"})>>),
  Cat(<<Lit(<<"s">>), In({"s","0"})>>), Cat(<<Lit(<<"t">>),
  In({"f","h"})>>)>>)), Lit(<<",", "-">>), Grp(2, Alt(<<Lit(<<"c">>),
  Lit(<<"k">>), Lit(<<"s">>), Lit(<<"t">>)>>)), Lit(<<"0",",">>)>>),
  \* 130: k[fhks],-(c|k|p|s|t)0,
  Cat(<<Lit(<<"k">>), In({"f","h","k","s"}), Lit(<<",", "-">>), Grp(1,
  Alt(<<Lit(<<"c">>), Lit(<<"k">>), Lit(<<"p">>), Lit(<<"s">>),
  Lit(<<"t">>)>>)), Lit(<<"0",",">>)>>),
  \* 131: p[sfh],-(c|k|p|s|t)0,
  Cat(<<Lit(<<"p">>), In({"s","f","h"}), Lit(<<",", "-">>), Grp(1,
  Alt(<<Lit(<<"c">>), Lit(<<"k">>), Lit(<<"p">>), Lit(<<"s">>),
  Lit(<<"t">>)>>)), Lit(<<"0",",">>)>>),
  \* 132: (?<=(kf|kh|ks|ss|c0|ch|tf|th),-)p0,
  Cat(<<Behind(4, Cat(<<Grp(1, Alt(<<Lit(<<"k","f">>), Lit(<<"k","h">>),
  Lit(<<"k","s">>), Lit(<<"s","s">>), Lit(<<"c","0">>), Lit(<<"c","h">>),
  Lit(<<"t","f">>), Lit(<<"t","h">>)>>)), Lit(<<",", "-">>)>>)),
  Lit(<<"p","0",",">>)>>),
  \* 133: h0,-s0,
  Lit(<<"h","0",",", "-", "s","0",",">>),
  \* 134: nh,-s0,
  Lit(<<"n","h",",", "-", "s","0",",">>),
  \* 135: lh,-s0,
  Lit(<<"l","h",",", "-", "s","0",",">>),
  \* 136: (ks|lk),(?=(#|$|-[ptkshcmnr]))
  Cat(<<Grp(1, Alt(<<Lit(<<"k","s">>), Lit(<<"l","k">>)>>)), Lit(<<",">>),
  Ahead(Grp(2, Alt(<<Lit(<<"#">>), Eol, Cat(<<Lit(<<"-">>),
  In({"p","t","k","s","h","c","m","n","r"})>>)>>)))>>),
  \* 137: n[ch],(?=(#|$|-[ptkshcmnr]))
  Cat(<<Lit(<<"n">>), In({"c","h"}), Lit(<<",">>), Ahead(Grp(1,
  Alt(<<Lit(<<"#">>), Eol, Cat(<<Lit(<<"-">>),
  In({"p","t","k","s","h","c","m","n","r"})>>)>>)))>>),
  \* 138: l[bsth],(?=(#|$|-[ptkshcmnr]))
  Cat(<<Lit(<<"l">>), In({"b","s","t","h"}), Lit(<<",">>), Ahead(Grp(1,
  Alt(<<Lit(<<"#">>), Eol, Cat(<<Lit(<<"-">>),
  In({"p","t","k","s","h","c","m","n","r"})>>)>>)))>>),
  \* 139: lm,(?=(#|$|-[ptkshcmnr]))
  Cat(<<Lit(<<"l","m",",">>), Ahead(Grp(1, Alt(<<Lit(<<"#">>), Eol,
  Cat(<<Lit(<<"-">>), In({"p","t","k","s","h","c","m","n","r"})>>)>>)))>>),
  \* 140: (ps|lp),(?=(#|$|-[ptkshcmnr]))
  Cat(<<Grp(1, Alt(<<Lit(<<"p","s">>), Lit(<<"l","p">>)>>)), Lit(<<",">>),
  Ahead(Grp(2, Alt(<<Lit(<<"#">>), Eol, Cat(<<Lit(<<"-">>),
  In({"p","t","k","s","h","c","m","n","r"})>>)>>)))>>),
  \* 141: ([kp])s,-(?=[aeqiouyvwx])
  Cat(<<Grp(1, In({"k","p"})), Lit(<<"s",",", "-">>),
  Ahead(In({"a","e","q","i","o","u","y","v","w","x"}))>>),
  \* 142: ls,-(?=[aeqiouyvwx])
  Cat(<<Lit(<<"l","s",",", "-">>),
  Ahead(In({"a","e","q","i","o","u","y","v","w","x"}))>>),
  \* 143: nc,-(?=[aeqiouyvwx])
  Cat(<<Lit(<<"n","c",",", "-">>),
  Ahead(In({"a","e","q","i","o","u","y","v","w","x"}))>>),
  \* 144: lk,-(?=[aeqiouyvwx])
  Cat(<<Lit(<<"l","k",",", "-">>),
  Ahead(In({"a","e","q","i","o","u","y","v","w","x"}))>>),
  \* 145: lm,-(?=[aeqiouyvwx])
  Cat(<<Lit(<<"l","m",",", "-">>),
  Ahead(In({"a","e","q","i","o","u","y","v","w","x"}))>>),
  \* 146: lb,-(?=[aeqiouyvwx])
  Cat(<<Lit(<<"l","b",",", "-">>),
  Ahead(In({"a","e","q","i","o","u","y","v","w","x"}))>>),
  \* 147: l([tp]),-(?=[aeqiouyvwx])
  Cat(<<Lit(<<"l">>), Grp(1, In({"t","p"})), Lit(<<",", "-">>),
  Ahead(In({"a","e","q","i","o","u","y","v","w","x"}))>>),
  \* 148: (?<=[pk])0,-rr,
  Cat(<<Behind(1, In({"p","k"})), Lit(<<"0",",", "-", "r","r",",">>)>>),
  \* 149: (c0|ch|s0|ss|tf|nh|h0),-nn,
  Cat(<<Grp(1, Alt(<<Lit(<<"c","0">>), Lit(<<"c","h">>), Lit(<<"s","0">>),
  Lit(<<"s","s">>), Lit(<<"t","f">>), Lit(<<"n","h">>),
  Lit(<<"h","0">>)>>)), Lit(<<",", "-", "n","n",",">>)>>),
  \* 150: nc,-(p|t|k)0,
  Cat(<<Lit(<<"n","c",",", "-">>), Grp(1, Alt(<<Lit(<<"p">>), Lit(<<"t">>),
  Lit(<<"k">>)>>)), Lit(<<"0",",">>)>>),
  \* 151: nc,(?=-[ptkshcmnr])
  Cat(<<Lit(<<"n","c",",">>), Ahead(Cat(<<Lit(<<"-">>),
  In({"p","t","k","s","h","c","m","n","r"})>>))>>),
  \* 152: lm,-k0,
  Lit(<<"l","m",",", "-", "k","0",",">>),
  \* 153: lm,(?=-[ptkshcmnr])
  Cat(<<Lit(<<"l","m",",">>), Ahead(Cat(<<Lit(<<"-">>),
  In({"p","t","k","s","h","c","m","n","r"})>>))>>),
  \* 154: k[fhks],(?=-(nn|mm),)
  Cat(<<Lit(<<"k">>), In({"f","h","k","s"}), Lit(<<",">>),
  Ahead(Cat(<<Lit(<<"-">>), Grp(1, Alt(<<Lit(<<"n","n">>),
  Lit(<<"m","m">>)>>)), Lit(<<",">>)>>))>>),
  \* 155: lk,(?=-(nn|mm),)
  Cat(<<Lit(<<"l","k",",">>), Ahead(Cat(<<Lit(<<"-">>), Grp(1,
  Alt(<<Lit(<<"n","n">>), Lit(<<"m","m">>)>>)), Lit(<<",">>)>>))>>),
  \* 156: p[sfh],(?=-(nn|mm),)
  Cat(<<Lit(<<"p">>), In({"s","f","h"}), Lit(<<",">>),
  Ahead(Cat(<<Lit(<<"-">>), Grp(1, Alt(<<Lit(<<"n","n">>),
  Lit(<<"m","m">>)>>)), Lit(<<",">>)>>))>>),
  \* 157: l[bp],(?=-(nn|mm),)
  Cat(<<Lit(<<"l">>), In({"b","p"}), Lit(<<",">>), Ahead(Cat(<<Lit(<<"-">>),
  Grp(1, Alt(<<Lit(<<"n","n">>), Lit(<<"m","m">>)>>)), Lit(<<",">>)>>))>>),
  \* 158: (?<=(mf|ng|pf|kf),-)rr,
  Cat(<<Behind(4, Cat(<<Grp(1, Alt(<<Lit(<<"m","f">>), Lit(<<"n","g">>),
  Lit(<<"p","f">>), Lit(<<"k","f">>)>>)), Lit(<<",", "-">>)>>)),
  Lit(<<"r","r",",">>)>>),
  \* 159: (c0|ch|s0|ss|tf|nh|h0),(?=-mm,)
  Cat(<<Grp(1, Alt(<<Lit(<<"c","0">>), Lit(<<"c","h">>), Lit(<<"s","0">>),
  Lit(<<"s","s">>), Lit(<<"t","f">>), Lit(<<"n","h">>),
  Lit(<<"h","0">>)>>)), Lit(<<",">>), Ahead(Lit(<<"-", "m","m",",">>))>>),
  \* 160: ll,-(?=y)
  Cat(<<Lit(<<"l","l",",", "-">>), Ahead(Lit(<<"y">>))>>),
  \* 161: (nf|ll),-rr,
  Cat(<<Grp(1, Alt(<<Lit(<<"n","f">>), Lit(<<"l","l">>)>>)), Lit(<<",", "-",
  "r","r",",">>)>>),
  \* 162: l[lht],-nn,
  Cat(<<Lit(<<"l">>), In({"l","h","t"}), Lit(<<",", "-", "n","n",",">>)>>),
  \* 163: tf,-(?=[iy])
  Cat(<<Lit(<<"t","f",",", "-">>), Ahead(In({"i","y"}))>>),
  \* 164: th,-(?=[iy])
  Cat(<<Lit(<<"t","h",",", "-">>), Ahead(In({"i","y"}))>>),
  \* 165: tf,-h0,(?=[iy])
  Cat(<<Lit(<<"t","f",",", "-", "h","0",",">>), Ahead(In({"i","y"}))>>),
  \* 166: (p|k)f,-h0,
  Cat(<<Grp(1, Alt(<<Lit(<<"p">>), Lit(<<"k">>)>>)), Lit(<<"f",",", "-",
  "h","0",",">>)>>),
  \* 167: h0,-(c|k|t)0,
  Cat(<<Lit(<<"h","0",",", "-">>), Grp(1, Alt(<<Lit(<<"c">>), Lit(<<"k">>),
  Lit(<<"t">>)>>)), Lit(<<"0",",">>)>>),
  \* 168: (tf|th|s0),(-|#)h0,
  Cat(<<Grp(1, Alt(<<Lit(<<"t","f">>), Lit(<<"t","h">>),
  Lit(<<"s","0">>)>>)), Lit(<<",">>), Grp(2, Alt(<<Lit(<<"-">>),
  Lit(<<"#">>)>>)), Lit(<<"h","0",",">>)>>),
  \* 169: (s0|ss|kk|p0|ph|pp|t0|th|tt|c0|ch|kh|kk|k0|mm|nn),-(?=[aeqiouyvwx])
  Cat(<<Grp(1, Alt(<<Lit(<<"s","0">>), Lit(<<"s","s">>), Lit(<<"k","k">>),
  Lit(<<"p","0">>), Lit(<<"p","h">>), Lit(<<"p","p">>), Lit(<<"t","0">>),
  Lit(<<"t","h">>), Lit(<<"t","t">>), Lit(<<"c","0">>), Lit(<<"c","h">>),
  Lit(<<"k","h">>), Lit(<<"k","k">>), Lit(<<"k","0">>), Lit(<<"m","m">>),
  Lit(<<"n","n">>)>>)), Lit(<<",", "-">>),
  Ahead(In({"a","e","q","i","o","u","y","v","w","x"}))>>),
  \* 170: nh,-(?=[aeqiouyvwx])
  Cat(<<Lit(<<"n","h",",", "-">>),
  Ahead(In({"a","e","q","i","o","u","y","v","w","x"}))>>),
  \* 171: (s0|ss|c0|ch|th),(?=-[ptkshcmnr])
  Cat(<<Grp(1, Alt(<<Lit(<<"s","0">>), Lit(<<"s","s">>), Lit(<<"c","0">>),
  Lit(<<"c","h">>), Lit(<<"t","h">>)>>)), Lit(<<",">>),
  Ahead(Cat(<<Lit(<<"-">>),
  In({"p","t","k","s","h","c","m","n","r"})>>))>>),
  \* 172: h0,-(?=[aeqiouyvwx])
  Cat(<<Lit(<<"h","0",",", "-">>),
  Ahead(In({"a","e","q","i","o","u","y","v","w","x"}))>>),
  \* 173: lh,-?(?=[aeqiouyvwx])
  Cat(<<Lit(<<"l","h",",">>), Opt(Lit(<<"-">>)),
  Ahead(In({"a","e","q","i","o","u","y","v","w","x"}))>>),
  \* 174: (p|t|k)f,-?(?=[aeqiouyvwx])
  Cat(<<Grp(1, Alt(<<Lit(<<"p">>), Lit(<<"t">>), Lit(<<"k">>)>>)),
  Lit(<<"f",",">>), Opt(Lit(<<"-">>)),
  Ahead(In({"a","e","q","i","o","u","y","v","w","x"}))>>),
  \* 175: (m|n)f,-?(?=[aeqiouyvwx])
  Cat(<<Grp(1, Alt(<<Lit(<<"m">>), Lit(<<"n">>)>>)), Lit(<<"f",",">>),
  Opt(Lit(<<"-">>)),
  Ahead(In({"a","e","q","i","o","u","y","v","w","x"}))>>),
  \* 176: (s0|ss|c0|ch|th),(?=-|#|$)
  Cat(<<Grp(1, Alt(<<Lit(<<"s","0">>), Lit(<<"s","s">>), Lit(<<"c","0">>),
  Lit(<<"c","h">>), Lit(<<"t","h">>)>>)), Lit(<<",">>),
  Ahead(Alt(<<Lit(<<"-">>), Lit(<<"#">>), Eol>>))>>),
  \* 177: (kh|kk|ks|lk),(?=-|#|$|[ptkshcmnr])
  Cat(<<Grp(1, Alt(<<Lit(<<"k","h">>), Lit(<<"k","k">>), Lit(<<"k","s">>),
  Lit(<<"l","k">>)>>)), Lit(<<",">>), Ahead(Alt(<<Lit(<<"-">>),
  Lit(<<"#">>), Eol, In({"p","t","k","s","h","c","m","n","r"})>>))>>),
  \* 178: (ph|lp|ps),(?=-|#|$|[ptkshcmnr])
  Cat(<<Grp(1, Alt(<<Lit(<<"p","h">>), Lit(<<"l","p">>),
  Lit(<<"p","s">>)>>)), Lit(<<",">>), Ahead(Alt(<<Lit(<<"-">>),
  Lit(<<"#">>), Eol, In({"p","t","k","s","h","c","m","n","r"})>>))>>),
  \* 179: (?<=[ptkshcmnr].),-(?=[aeqiouyvwx])
  Cat(<<Behind(2, Cat(<<In({"p","t","k","s","h","c","m","n","r"}), Dot>>)),
  Lit(<<",", "-">>),
  Ahead(In({"a","e","q","i","o","u","y","v","w","x"}))>>),
  \* 180: l[bhstp],(?=-|#|$|[ptkshcmnr])
  Cat(<<Lit(<<"l">>), In({"b","h","s","t","p"}), Lit(<<",">>),
  Ahead(Alt(<<Lit(<<"-">>), Lit(<<"#">>), Eol,
  In({"p","t","k","s","h","c","m","n","r"})>>))>>),
  \* 181: nh,(?=-|#|$|[ptkshcmnr])
  Cat(<<Lit(<<"n","h",",">>), Ahead(Alt(<<Lit(<<"-">>), Lit(<<"#">>), Eol,
  In({"p","t","k","s","h","c","m","n","r"})>>))>>),
  \* 182: (?<=[aeqiouyvwx].,)ll,-(?=[aeqiouyvwx])
  Cat(<<Behind(3, Cat(<<In({"a","e","q","i","o","u","y","v","w","x"}), Dot,
  Lit(<<",">>)>>)), Lit(<<"l","l",",", "-">>),
  Ahead(In({"a","e","q","i","o","u","y","v","w","x"}))>>),
  \* 183: ll,-ll,
  Lit(<<"l","l",",", "-", "l","l",",">>)
>>

rule_out == <<
  \* 0: ii,ll,rr,y\1,
  <<"i","i",",", "l","l",",", "r","r",",", "y","\\1",",">>,
  \* 1: \1,ll,rr,ii,ll,
  <<"\\1",",", "l","l",",", "r","r",",", "i","i",",", "l","l",",">>,
  \* 2: s0,vv,ll,rr,ii,kf,
  <<"s","0",",", "v","v",",", "l","l",",", "r","r",",", "i","i",",",
  "k","f",",">>,
  \* 3: mm,uu,ll,kk,oo,k0,ii,
  <<"m","m",",", "u","u",",", "l","l",",", "k","k",",", "o","o",",",
  "k","0",",", "i","i",",">>,
  \* 4: s0,ii,ll,s0,ii,ll
  <<"s","0",",", "i","i",",", "l","l",",", "s","0",",", "i","i",",",
  "l","l">>,
  \* 5: k0,ii,s0,xx,kf,
  <<"k","0",",", "i","i",",", "s","0",",", "x","x",",", "k","f",",">>,
  \* 6: c0,vv,rr,ya,kf,
  <<"c","0",",", "v","v",",", "r","r",",", "y","a",",", "k","f",",">>,
  \* 7: k0,xx,-mm,yo,-ii,ll,
  <<"k","0",",", "x","x",",", "-","m","m",",", "y","o",",", "-","i","i",",",
  "l","l",",">>,
  \* 8: ll,-ch,ii,
  <<"l","l",",", "-","c","h",",", "i","i",",">>,
  \* 9: pf,
  <<"p","f",",">>,
  \* 10: ll,cc,
  <<"l","l",",", "c","c",",">>,
  \* 11: t0,aa,kf,
  <<"t","0",",", "a","a",",", "k","f",",">>,
  \* 12: \1,nf,k0,aa,tf,
  <<"\\1",",", "n","f",",", "k","0",",", "a","a",",", "t","f",",">>,
  \* 13: mm,aa,th,yv,ng,
  <<"m","m",",", "a","a",",", "t","h",",", "y","v",",", "n","g",",">>,
  \* 14: k0,vv,t0,oo,tf,
  <<"k","0",",", "v","v",",", "t","0",",", "o","o",",", "t","f",",">>,
  \* 15: c0,uu,ll,rr,vv,mf,-kk,ii,
  <<"c","0",",", "u","u",",", "l","l",",", "r","r",",", "v","v",",",
  "m","f",",", "-","k","k",",", "i","i",",">>,
  \* 16: h0,oo,nf,nn,ii,p0,uu,ll,
  <<"h","0",",", "o","o",",", "n","f",",", "n","n",",", "i","i",",",
  "p","0",",", "u","u",",", "l","l",",">>,
  \* 17: s0,aa,ng,nn,ii,ll,
  <<"s","0",",", "a","a",",", "n","g",",", "n","n",",", "i","i",",",
  "l","l",",">>,
  \* 18: mm,qq,nf,nn,ii,pf,
  <<"m","m",",", "q","q",",", "n","f",",", "n","n",",", "i","i",",",
  "p","f",",">>,
  \* 19: kk,oo,nf,nn,ii,pf,
  <<"k","k",",", "o","o",",", "n","f",",", "n","n",",", "i","i",",",
  "p","f",",">>,
  \* 20: nn,qq,p0,oo,ng,nn,ya,kf,
  <<"n","n",",", "q","q",",", "p","0",",", "o","o",",", "n","g",",",
  "n","n",",", "y","a",",", "k","f",",">>,
  \* 21: h0,aa,nf,nn,yv,rr,xx,mf,
  <<"h","0",",", "a","a",",", "n","f",",", "n","n",",", "y","v",",",
  "r","r",",", "x","x",",", "m","f",",">>,
  \* 22: nn,aa,mf,c0,oo,nf,nn,yv,p0,ii,
  <<"n","n",",", "a","a",",", "m","f",",", "c","0",",", "o","o",",",
  "n","f",",", "n","n",",", "y","v",",", "p","0",",", "i","i",",">>,
  \* 23: s0,ii,nf,nn,yv,s0,vv,ng,
  <<"s","0",",", "i","i",",", "n","f",",", "n","n",",", "y","v",",",
  "s","0",",", "v","v",",", "n","g",",">>,
  \* 24: s0,qq,ng,nn,yv,nf,ph,ii,ll,
  <<"s","0",",", "q","q",",", "n","g",",", "n","n",",", "y","v",",",
  "n","f",",", "p","h",",", "i","i",",", "l","l",",">>,
  \* 25: t0,aa,mf,nn,yo,
  <<"t","0",",", "a","a",",", "m","f",",", "n","n",",", "y","o",",">>,
  \* 26: nn,uu,nf,nn,yo,k0,ii,
  <<"n","n",",", "u","u",",", "n","f",",", "n","n",",", "y","o",",",
  "k","0",",", "i","i",",">>,
  \* 27: vv,mf,nn,yo,ng,
  <<"v","v",",", "m","f",",", "n","n",",", "y","o",",", "n","g",",">>,
  \* 28: s0,ii,k0,yo,ng,nn,yu,
  <<"s","0",",", "i","i",",", "k","0",",", "y","o",",", "n","g",",",
  "n","n",",", "y","u",",">>,
  \* 29: nf,nn,yu,ll,rr,ii,
  <<"n","f",",", "n","n",",", "y","u",",", "l","l",",", "r","r",",",
  "i","i",",">>,
  \* 30: \1,\2,ll,rr,ii,pf,
  <<"\\1",",", "\\2",",", "l","l",",", "r","r",",", "i","i",",",
  "p","f",",">>,
  \* 31: h0,aa,nf,nn,ii,ll,
  <<"h","0",",", "a","a",",", "n","f",",", "n","n",",", "i","i",",",
  "l","l",",">>,
  \* 32: mm,aa,ng,nn,ii,ll,
  <<"m","m",",", "a","a",",", "n","g",",", "n","n",",", "i","i",",",
  "l","l",",">>,
  \* 33: mm,oo,ll,ss,aa,ng,s0,ii,kf,
  <<"m","m",",", "o","o",",", "l","l",",", "s","s",",", "a","a",",",
  "n","g",",", "s","0",",", "i","i",",", "k","f",",">>,
  \* 34: oo,nf,nn,ii,pf,
  <<"o","o",",", "n","f",",", "n","n",",", "i","i",",", "p","f",",">>,
  \* 35: \1,nn,yv,s0,vv,tf,
  <<"\\1",",", "n","n",",", "y","v",",", "s","0",",", "v","v",",",
  "t","f",",">>,
  \* 36: \1,nn,y\2,
  <<"\\1",",", "n","n",",", "y","\\2",",">>,
  \* 37: \1,rr,y\2,
  <<"\\1",",", "r","r",",", "y","\\2",",">>,
  \* 38: ll,rr,y\1,
  <<"l","l",",", "r","r",",", "y","\\1",",">>,
  \* 39: ii,ll,cc,vv,ll,
  <<"i","i",",", "l","l",",", "c","c",",", "v","v",",", "l","l",",">>,
  \* 40: nf,-nn,y\2,
  <<"n","f",",", "-","n","n",",", "y","\\2",",">>,
  \* 41: mm,aa,ng,nn,ii,ll
  <<"m","m",",", "a","a",",", "n","g",",", "n","n",",", "i","i",",",
  "l","l">>,
  \* 42: k0,uu,k0,xx,nf,nn,yu,
  <<"k","0",",", "u","u",",", "k","0",",", "x","x",",", "n","f",",",
  "n","n",",", "y","u",",">>,
  \* 43: k0,aa,ll,\1\1,xx,ng,
  <<"k","0",",", "a","a",",", "l","l",",", "\\1","\\1",",", "x","x",",",
  "n","g",",">>,
  \* 44: p0,aa,ll,tt,oo,ng,
  <<"p","0",",", "a","a",",", "l","l",",", "t","t",",", "o","o",",",
  "n","g",",">>,
  \* 45: c0,vv,ll,tt,oo,
  <<"c","0",",", "v","v",",", "l","l",",", "t","t",",", "o","o",",">>,
  \* 46: mm,aa,ll,ss,aa,ll,
  <<"m","m",",", "a","a",",", "l","l",",", "s","s",",", "a","a",",",
  "l","l",",">>,
  \* 47: p0,uu,ll,ss,
  <<"p","0",",", "u","u",",", "l","l",",", "s","s",",">>,
  \* 48: ii,ll,ss,ii,
  <<"i","i",",", "l","l",",", "s","s",",", "i","i",",">>,
  \* 49: p0,aa,ll,cc,vv,nf,
  <<"p","0",",", "a","a",",", "l","l",",", "c","c",",", "v","v",",",
  "n","f",",">>,
  \* 50: \2\2,
  <<"\\2","\\2",",">>,
  \* 51: pp,
  <<"p","p",",">>,
  \* 52: cc,
  <<"c","c",",">>,
  \* 53: c0,aa,mf,cc,aa,rr,ii,
  <<"c","0",",", "a","a",",", "m","f",",", "c","c",",", "a","a",",",
  "r","r",",", "i","i",",">>,
  \* 54: cc,
  <<"c","c",",">>,
  \* 55: pp,vv,pf,
  <<"p","p",",", "v","v",",", "p","f",",">>,
  \* 56: pp,
  <<"p","p",",">>,
  \* 57: p0,aa,rr,aa,mf,kk,yv,ll,
  <<"p","0",",", "a","a",",", "r","r",",", "a","a",",", "m","f",",",
  "k","k",",", "y","v",",", "l","l",",">>,
  \* 58: pp,
  <<"p","p",",">>,
  \* 59: tt,
  <<"t","t",",">>,
  \* 60: mm,aa,ng,nn,yv,mf,
  <<"m","m",",", "a","a",",", "n","g",",", "n","n",",", "y","v",",",
  "m","f",",">>,
  \* 61: p0,aa,pf,\1\1,
  <<"p","0",",", "a","a",",", "p","f",",", "\\1","\\1",",">>,
  \* 62: p0,aa,mf,nn,
  <<"p","0",",", "a","a",",", "m","f",",", "n","n",",">>,
  \* 63: nn,vv,ll,\1\1,
  <<"n","n",",", "v","v",",", "l","l",",", "\\1","\\1",",">>,
  \* 64: mm,\1,t0,ii,tf,tt,aa,
  <<"m","m",",", "\\1",",", "t","0",",", "i","i",",", "t","f",",",
  "t","t",",", "a","a",",">>,
  \* 65: mm,\1,t0,vv,pf,tt,aa,
  <<"m","m",",", "\\1",",", "t","0",",", "v","v",",", "p","f",",",
  "t","t",",", "a","a",",">>,
  \* 66: c0,vv,t0,vv,mm,ii,
  <<"c","0",",", "v","v",",", "t","0",",", "v","v",",", "m","m",",",
  "i","i",",">>,
  \* 67: h0,vv,t0,uu,s0,xx,mf,
  <<"h","0",",", "v","v",",", "t","0",",", "u","u",",", "s","0",",",
  "x","x",",", "m","f",",">>,
  \* 68: k0,aa,p0,vv,ch,ii,
  <<"k","0",",", "a","a",",", "p","0",",", "v","v",",", "c","h",",",
  "i","i",",">>,
  \* 69: k0,aa,p0,ii,nf,nn,xx,nf,
  <<"k","0",",", "a","a",",", "p","0",",", "i","i",",", "n","f",",",
  "n","n",",", "x","x",",", "n","f",",">>,
  \* 70: c0,vv,mf,cc,ii,
  <<"c","0",",", "v","v",",", "m","f",",", "c","c",",", "i","i",",">>,
  \* 71: oo,mf,k0,
  <<"o","o",",", "m","f",",", "k","0",",">>,
  \* 72: k0,uu,mf,k0,ii,t0,aa,
  <<"k","0",",", "u","u",",", "m","f",",", "k","0",",", "i","i",",",
  "t","0",",", "a","a",",">>,
  \* 73: \1,aa,ll,\2\2,
  <<"\\1",",", "a","a",",", "l","l",",", "\\2","\\2",",">>,
  \* 74: ch,vv,t0,ii,nf,
  <<"c","h",",", "v","v",",", "t","0",",", "i","i",",", "n","f",",">>,
  \* 75: nn,ii,p0,uu,ll,
  <<"n","n",",", "i","i",",", "p","0",",", "u","u",",", "l","l",",">>,
  \* 76: kk,oo,rr,ii,
  <<"k","k",",", "o","o",",", "r","r",",", "i","i",",">>,
  \* 77: ss,qq,
  <<"s","s",",", "q","q",",">>,
  \* 78: cc,qq,c0,uu,
  <<"c","c",",", "q","q",",", "c","0",",", "u","u",",">>,
  \* 79: k0,ii,ll,kk,aa,
  <<"k","0",",", "i","i",",", "l","l",",", "k","k",",", "a","a",",">>,
  \* 80: mm,uu,ll,tt,oo,ng,ii,
  <<"m","m",",", "u","u",",", "l","l",",", "t","t",",", "o","o",",",
  "n","g",",", "i","i",",">>,
  \* 81: mm,uu,ll,-cc,
  <<"m","m",",", "u","u",",", "l","l",",", "-","c","c",",">>,
  \* 82: pp,aa,t0,aa,kf,
  <<"p","p",",", "a","a",",", "t","0",",", "a","a",",", "k","f",",">>,
  \* 83: ss,oo,kf,
  <<"s","s",",", "o","o",",", "k","f",",">>,
  \* 84: \1\1,
  <<"\\1","\\1",",">>,
  \* 85: k0,aa,ng,kk,aa,
  <<"k","0",",", "a","a",",", "n","g",",", "k","k",",", "a","a",",">>,
  \* 86: tt,aa,ll,
  <<"t","t",",", "a","a",",", "l","l",",">>,
  \* 87: t0,xx,ng,pp,uu,ll,
  <<"t","0",",", "x","x",",", "n","g",",", "p","p",",", "u","u",",",
  "l","l",",">>,
  \* 88: ch,aa,ng,ss,aa,ll,
  <<"c","h",",", "a","a",",", "n","g",",", "s","s",",", "a","a",",",
  "l","l",",">>,
  \* 89: k0,aa,ng,cc,uu,ll,k0,ii,
  <<"k","0",",", "a","a",",", "n","g",",", "c","c",",", "u","u",",",
  "l","l",",", "k","0",",", "i","i",",">>,
  \* 90: aa,nf,kk,oo,
  <<"a","a",",", "n","f",",", "k","k",",", "o","o",",">>,
  \* 91: \1\1,
  <<"\\1","\\1",",">>,
  \* 92: ii,c0,uu,ng,nn,ii,c0,uu,kf,
  <<"i","i",",", "c","0",",", "u","u",",", "n","g",",", "n","n",",",
  "i","i",",", "c","0",",", "u","u",",", "k","f",",">>,
  \* 93: ya,k0,xx,mf,nn,ya,k0,xx,mf,
  <<"y","a",",", "k","0",",", "x","x",",", "m","f",",", "n","n",",",
  "y","a",",", "k","0",",", "x","x",",", "m","f",",">>,
  \* 94: p0,ee,k0,qq,nf,nn,ii,tf,
  <<"p","0",",", "e","e",",", "k","0",",", "q","q",",", "n","f",",",
  "n","n",",", "i","i",",", "t","f",",">>,
  \* 95: kk,qq,nf,nn,ii,pf,
  <<"k","k",",", "q","q",",", "n","f",",", "n","n",",", "i","i",",",
  "p","f",",">>,
  \* 96: nn,aa,mm,uu,nf,nn,ii,pf,
  <<"n","n",",", "a","a",",", "m","m",",", "u","u",",", "n","f",",",
  "n","n",",", "i","i",",", "p","f",",">>,
  \* 97: qq,nf,nn,yv,ll,
  <<"q","q",",", "n","f",",", "n","n",",", "y","v",",", "l","l",",">>,
  \* 98: t0,wi,nf,-nn,
  <<"t","0",",", "w","i",",", "n","f",",", "-","n","n",",">>,
  \* 99: nn,xx,tf,nn,yv,rr,xx,mf,
  <<"n","n",",", "x","x",",", "t","f",",", "n","n",",", "y","v",",",
  "r","r",",", "x","x",",", "m","f",",">>,
  \* 100: t0,ii,k0,xx,s0,\1,
  <<"t","0",",", "i","i",",", "k","0",",", "x","x",",", "s","0",",",
  "\\1",",">>,
  \* 101: \1,ii,xx,s0,\3,
  <<"\\1",",", "i","i",",", "x","x",",", "s","0",",", "\\3",",">>,
  \* 102: ph,ii,xx,p0,\1,
  <<"p","h",",", "i","i",",", "x","x",",", "p","0",",", "\\1",",">>,
  \* 103: kh,ii,xx,k0,\1,
  <<"k","h",",", "i","i",",", "x","x",",", "k","0",",", "\\1",",">>,
  \* 104: ll,-ph,
  <<"l","l",",", "-","p","h",",">>,
  \* 105: nf,-\1h,
  <<"n","f",",", "-","\\1","h",",">>,
  \* 106: ll,-\1h,
  <<"l","l",",", "-","\\1","h",",">>,
  \* 107: ll,-kh,
  <<"l","l",",", "-","k","h",",">>,
  \* 108: nf,-ch,
  <<"n","f",",", "-","c","h",",">>,
  \* 109: \1kf,-\3,
  <<"\\1","k","f",",", "-","\\3",",">>,
  \* 110: \1ll,-kk,
  <<"\\1","l","l",",", "-","k","k",",">>,
  \* 111: nf,-\1h,
  <<"n","f",",", "-","\\1","h",",">>,
  \* 112: nf,-ss,
  <<"n","f",",", "-","s","s",",">>,
  \* 113: nf,-nn,
  <<"n","f",",", "-","n","n",",">>,
  \* 114: -nn,
  <<"-","n","n",",">>,
  \* 115: ll,-rr,
  <<"l","l",",", "-","r","r",",">>,
  \* 116: ll,-\1h,
  <<"l","l",",", "-","\\1","h",",">>,
  \* 117: ll,-ss,
  <<"l","l",",", "-","s","s",",">>,
  \* 118: -rr,
  <<"-","r","r",",">>,
  \* 119: nf,-\1\1,
  <<"n","f",",", "-","\\1","\\1",",">>,
  \* 120: \1mf,-\3\3,
  <<"\\1","m","f",",", "-","\\3","\\3",",">>,
  \* 121: \1ll,-\4\4,
  <<"\\1","l","l",",", "-","\\4","\\4",",">>,
  \* 122: h0,\1,ll,-ll,
  <<"h","0",",", "\\1",",", "l","l",",", "-","l","l",",">>,
  \* 123: h0,\1,ll,-\2\2,
  <<"h","0",",", "\\1",",", "l","l",",", "-","\\2","\\2",",">>,
  \* 124: kf,-\1\1,
  <<"k","f",",", "-","\\1","\\1",",">>,
  \* 125: pf,-pp,
  <<"p","f",",", "-","p","p",",">>,
  \* 126: tf,-pp,
  <<"t","f",",", "-","p","p",",">>,
  \* 127: ll,-\2\2,
  <<"l","l",",", "-","\\2","\\2",",">>,
  \* 128: pf,-\1\1,
  <<"p","f",",", "-","\\1","\\1",",">>,
  \* 129: tf,-\2\2,
  <<"t","f",",", "-","\\2","\\2",",">>,
  \* 130: kf,-\1\1,
  <<"k","f",",", "-","\\1","\\1",",">>,
  \* 131: pf,-\1\1,
  <<"p","f",",", "-","\\1","\\1",",">>,
  \* 132: pp,
  <<"p","p",",">>,
  \* 133: -ss,
  <<"-","s","s",",">>,
  \* 134: nf,-ss,
  <<"n","f",",", "-","s","s",",">>,
  \* 135: ll,-ss,
  <<"l","l",",", "-","s","s",",">>,
  \* 136: kf,
  <<"k","f",",">>,
  \* 137: nf,
  <<"n","f",",">>,
  \* 138: ll,
  <<"l","l",",">>,
  \* 139: mf,
  <<"m","f",",">>,
  \* 140: pf,
  <<"p","f",",">>,
  \* 141: \1f,-ss,
  <<"\\1","f",",", "-","s","s",",">>,
  \* 142: ll,-ss,
  <<"l","l",",", "-","s","s",",">>,
  \* 143: nf,-c0,
  <<"n","f",",", "-","c","0",",">>,
  \* 144: ll,-k0,
  <<"l","l",",", "-","k","0",",">>,
  \* 145: ll,-mm,
  <<"l","l",",", "-","m","m",",">>,
  \* 146: ll,-p0,
  <<"l","l",",", "-","p","0",",">>,
  \* 147: ll,-\1h,
  <<"l","l",",", "-","\\1","h",",">>,
  \* 148: f,-nn,
  <<"f",",", "-","n","n",",">>,
  \* 149: nf,-nn,
  <<"n","f",",", "-","n","n",",">>,
  \* 150: nf,-\1\1,
  <<"n","f",",", "-","\\1","\\1",",">>,
  \* 151: nf,
  <<"n","f",",">>,
  \* 152: mf,-kk,
  <<"m","f",",", "-","k","k",",">>,
  \* 153: mf,
  <<"m","f",",">>,
  \* 154: ng,
  <<"n","g",",">>,
  \* 155: ng,
  <<"n","g",",">>,
  \* 156: mf,
  <<"m","f",",">>,
  \* 157: mf,
  <<"m","f",",">>,
  \* 158: nn,
  <<"n","n",",">>,
  \* 159: nf,
  <<"n","f",",">>,
  \* 160: -rr,
  <<"-","r","r",",">>,
  \* 161: ll,-rr,
  <<"l","l",",", "-","r","r",",">>,
  \* 162: ll,-rr,
  <<"l","l",",", "-","r","r",",">>,
  \* 163: -c0,
  <<"-","c","0",",">>,
  \* 164: -ch,
  <<"-","c","h",",">>,
  \* 165: -ch,
  <<"-","c","h",",">>,
  \* 166: -\1h,
  <<"-","\\1","h",",">>,
  \* 167: -\1h,
  <<"-","\\1","h",",">>,
  \* 168: -th,
  <<"-","t","h",",">>,
  \* 169: -\1,
  <<"-","\\1",",">>,
  \* 170: -nn,
  <<"-","n","n",",">>,
  \* 171: tf,
  <<"t","f",",">>,
  \* 172: -
  <<"-">>,
  \* 173: -rr,
  <<"-","r","r",",">>,
  \* 174: -\g<1>0,
  <<"-","\\1","0",",">>,
  \* 175: -\1\1,
  <<"-","\\1","\\1",",">>,
  \* 176: tf,
  <<"t","f",",">>,
  \* 177: kf,
  <<"k","f",",">>,
  \* 178: pf,
  <<"p","f",",">>,
  \* 179: ,
  <<",">>,
  \* 180: ll,
  <<"l","l",",">>,
  \* 181: nf,-
  <<"n","f",",", "-">>,
  \* 182: -rr,
  <<"-","r","r",",">>,
  \* 183: ll,-rr,
  <<"l","l",",", "-","r","r",",">>
>>

(***************************************************************************)
(* phone2prono and the steps of graph2prono.                               *)
(***************************************************************************)
\* ApplyRules[<<ph, rin, rout, lo, hi>>]: rules lo..hi (one-based) applied in
\* table order, each to the outcome of the one before it.  The range is
\* halved, which keeps the evaluation shallow; the value is that of applying
\* the rules one after another.
ApplyRules[a \in Any] ==
  LET ph == a[1]
      rin == a[2]
      rout == a[3]
      lo == a[4]
      hi == a[5]
      mid == (lo + hi) \div 2
  IN IF lo > hi THEN ph
     ELSE IF lo = hi THEN re_sub(rin[lo], rout[lo], ph)
     ELSE ApplyRules[<<ApplyRules[<<ph, rin, rout, lo, mid>>],
                       rin, rout, mid + 1, hi>>]

\* zip(rule_in, rule_out) ends with the shorter table
phone2prono(ph, rin, rout) ==
  ApplyRules[<<ph, rin, rout, 1,
               IF Len(rin) < Len(rout) THEN Len(rin) ELSE Len(rout)>>]

\* lines 166-171: the first pass and its normalisation
FirstProno(bd) ==
  LET q0 == phone2prono(bd, rule_in, rule_out)
      q1 == re_sub(Lit(<<",">>), <<" ">>, q0)
      q2 == re_sub(Cat(<<Lit(<<" ">>), Eol>>), <<>>, q1)
      q3 == re_sub(Lit(<<"#">>), <<"-">>, q2)
  IN re_sub(Plus(Lit(<<"-">>)), <<"-">>, q3)

\* lines 178-180: one more pass over the previous result
NextProno(prev) ==
  LET t0 == re_sub(Lit(<<" ">>), <<",">>, prev \o <<",">>)
      t1 == phone2prono(t0, rule_in, rule_out)
      t2 == re_sub(Lit(<<",">>), <<" ">>, t1)
  IN re_sub(Cat(<<Lit(<<" ">>), Eol>>), <<>>, t2)

\* StripBoundary leaving the markers in
StripBoundaryKept(x) == x

\* re.sub('-', '', x)
StripBoundary(x) == re_sub(Lit(<<"-">>), <<>>, x)

\* the test of line 182 with the markers taken out of the new text only
IdenticalOneSided(prev, new) == prev = StripBoundary(new)

\* the test of line 182
Identical(prev, new) == StripBoundary(prev) = StripBoundary(new)

(***************************************************************************)
(* The input texts.                                                        *)
(***************************************************************************)
RECURSIVE TextsOfLen(_, _)
TextsOfLen(A, n) ==
  IF n = 0 THEN {<<>>}
  ELSE {Append(t, c) : t \in TextsOfLen(A, n - 1), c \in A}

TextsUpTo(A, n) == UNION {TextsOfLen(A, m) : m \in 0..n}

\* space, 'a', and syllables with and without the null onset (index 11)
\* and the coda of index 21
PhoneChars ==
  {32, 97,
   44032,  \* (0, 0, 0)    k0 aa
   44053,  \* (0, 0, 21)   k0 aa oh
   50500,  \* (11, 0, 0)   oh aa
   50521,  \* (11, 0, 21)  oh aa oh
   51339}  \* (12, 8, 27)  c0 oo h0

\* the texts over PhoneChars, and every codepoint of the Hangul block and
\* the two around it as a text of its own
PhoneTexts ==
  TextsUpTo(PhoneChars, MaxLen)
    \cup {<<c>> : c \in (hangul_init - 1)..(hangul_fin + 1)}

\* space and two syllables whose coda and onset set the rules off
TextChars ==
  {32,
   45798,  \* (3, 0, 2)   t0 aa kk
   47532}  \* (5, 20, 0)  rr ii

\* space and 'a': the texts without a syllable
OtherChars == {32, 97}

\* the texts over TextChars and those over OtherChars
Texts == TextsUpTo(TextChars, MaxText) \cup TextsUpTo(OtherChars, MaxText)

(***************************************************************************)
(* The state machine: one call of runKoG2P(graphs).                        *)
(***************************************************************************)
Start(texts) ==
  /\ graphs \in texts
  /\ pc = "graph2phone"
  /\ idx = checkCharType(graphs)
  /\ iElement = 0
  /\ phones = <<>>
  /\ iONS = 0 /\ iNUC = 0 /\ iCOD = 0
  /\ romanized = <<>>
  /\ ipos = 0
  /\ newphones = <<>>
  /\ romanized_bd = <<>>
  /\ prono_prev = <<>>
  /\ prono_new = <<>>
  /\ identical = FALSE
  /\ loop_cnt = 0
  /\ result = <<>>

Init == Start(Texts)

InitPhone == Start(PhoneTexts)

\* graph2phone, lines 80-104: one pass of the while loop
GraphStep ==
  /\ pc = "graph2phone"
  /\ iElement < Len(graphs)
  /\ LET c == At(graphs, iElement)
         t == At(idx, iElement)
         d == Decompose(c)
     IN IF t = 0 /\ ~LookupOk(d)
        THEN /\ pc' = "IndexError@graph2phone"
             /\ iONS' = d.iONS /\ iNUC' = d.iNUC /\ iCOD' = d.iCOD
             /\ UNCHANGED <<phones, iElement>>
        ELSE /\ phones' = LoopBody(phones, t, c)
             /\ iElement' = iElement + 1
             /\ IF t = 0
                THEN iONS' = d.iONS /\ iNUC' = d.iNUC /\ iCOD' = d.iCOD
                ELSE UNCHANGED <<iONS, iNUC, iCOD>>
             /\ pc' = pc
  /\ UNCHANGED <<graphs, idx, romanized, ipos, newphones, romanized_bd,
                 prono_prev, prono_new, identical, loop_cnt, result>>

\* graph2phone, lines 106-118, and the call of addPhoneBoundary (line 165)
GraphReturn ==
  /\ pc = "graph2phone"
  /\ iElement >= Len(graphs)
  /\ romanized' = PostProcess(phones)
  /\ ipos' = 0
  /\ newphones' = <<>>
  /\ pc' = "addPhoneBoundary"
  /\ UNCHANGED <<graphs, idx, iElement, phones, iONS, iNUC, iCOD,
                 romanized_bd, prono_prev, prono_new, identical, loop_cnt,
                 result>>

\* addPhoneBoundary, lines 134-145: one pass of the while loop
BoundaryStep ==
  /\ pc = "addPhoneBoundary"
  /\ ipos + 2 <= Len(romanized)
  /\ LET c == At(romanized, ipos)
         kept == IF c \in {"-", "#"} THEN newphones \o <<c>> ELSE newphones
         at == IF c \in {"-", " ", "#"} THEN ipos + 1 ELSE ipos
     IN IF InRange(romanized, at + 1)
        THEN /\ newphones' = kept \o <<At(romanized, at), At(romanized, at + 1), ",">>
             /\ ipos' = at + 2
             /\ pc' = pc
        ELSE /\ newphones' = kept
             /\ ipos' = at
             /\ pc' = "IndexError@addPhoneBoundary"
  /\ UNCHANGED <<graphs, idx, iElement, phones, iONS, iNUC, iCOD, romanized,
                 romanized_bd, prono_prev, prono_new, identical, loop_cnt,
                 result>>

\* addPhoneBoundary, line 147
BoundaryReturn ==
  /\ pc = "addPhoneBoundary"
  /\ ipos + 2 > Len(romanized)
  /\ romanized_bd' = newphones
  /\ pc' = "phone2prono"
  /\ UNCHANGED <<graphs, idx, iElement, phones, iONS, iNUC, iCOD, romanized,
                 ipos, newphones, prono_prev, prono_new, identical, loop_cnt,
                 result>>

\* graph2prono, lines 166-175
FirstPass ==
  /\ pc = "phone2prono"
  /\ prono_prev' = FirstProno(romanized_bd)
  /\ identical' = FALSE
  /\ loop_cnt' = 1
  /\ pc' = "loop"
  /\ UNCHANGED <<graphs, idx, iElement, phones, iONS, iNUC, iCOD, romanized,
                 ipos, newphones, romanized_bd, prono_new, result>>

\* graph2prono, lines 177-187: one pass of the while loop
LoopPass ==
  /\ pc = "loop"
  /\ ~identical
  /\ \E new \in {NextProno(prono_prev)} :
        IF Identical(prono_prev, new)
        THEN /\ identical' = TRUE
             /\ prono_new' = StripBoundary(new)
             /\ UNCHANGED <<loop_cnt, prono_prev>>
        ELSE /\ loop_cnt' = IF loop_cnt < MaxLoop THEN loop_cnt + 1 ELSE loop_cnt
             /\ prono_prev' = new
             /\ prono_new' = new
             /\ UNCHANGED identical
  /\ UNCHANGED <<graphs, pc, idx, iElement, phones, iONS, iNUC, iCOD,
                 romanized, ipos, newphones, romanized_bd, result>>

\* graph2prono, line 189, and runKoG2P, lines 277-279
Return ==
  /\ pc = "loop"
  /\ identical
  /\ result' = prono_new
  /\ pc' = "done"
  /\ UNCHANGED <<graphs, idx, iElement, phones, iONS, iNUC, iCOD, romanized,
                 ipos, newphones, romanized_bd, prono_prev, prono_new,
                 identical, loop_cnt>>

NextPhone == GraphStep \/ GraphReturn \/ BoundaryStep \/ BoundaryReturn

Next ==
  \/ GraphStep \/ GraphReturn \/ BoundaryStep \/ BoundaryReturn
  \/ FirstPass \/ LoopPass \/ Return

\* runKoG2P on the texts of Texts
Spec == Init /\ [][Next]_vars

\* the same, every enabled step being taken: a call runs on until it returns
LiveSpec == Init /\ [][Next]_vars /\ WF_vars(Next)

\* graph2phone and addPhoneBoundary alone, on the texts of PhoneTexts
SpecPhone == InitPhone /\ [][NextPhone]_vars

(***************************************************************************)
(* The claims.                                                             *)
(***************************************************************************)
HangulSyllable(c) == c >= 44032 /\ c <= 55203

IsMarker(ch) == ch \in {"-", "#"}

NotMarker(ch) == ch \notin {"-", "#"}

NotComma(ch) == ch # ","

\* graph2phone has returned: romanized holds its result
GraphReturned == pc \notin {"graph2phone", "IndexError@graph2phone"}

\* the two-character tokens of a phone string, its markers left out
Tokens(p) ==
  LET cs == SelectSeq(p, NotMarker)
  IN [n \in 1..(Len(cs) \div 2) |-> <<cs[2 * n - 1], cs[2 * n]>>]

\* C1: every call of runKoG2P returns: the loop of graph2prono reaches a
\* pass whose result equals the previous one up to '-', and no step raises.
C1_Terminates == <>(pc = "done" /\ identical)

\* a call that returned after three passes of the loop
C1_Witness ==
  pc = "done" /\ identical /\ loop_cnt = 3 /\ graphs = <<45798, 47532>>

\* C2: the returned text r is stable: r with ',' appended and its spaces
\* turned into ',', passed once more through phone2prono, with ',' turned
\* back into spaces, one trailing space removed and all '-' removed, is r.
C2_FixpointStable ==
  pc = "done"
    => LET t0 == re_sub(Lit(<<" ">>), <<",">>, result \o <<",">>)
           t1 == phone2prono(t0, rule_in, rule_out)
           t2 == re_sub(Lit(<<",">>), <<" ">>, t1)
           t3 == re_sub(Cat(<<Lit(<<" ">>), Eol>>), <<>>, t2)
       IN re_sub(Lit(<<"-">>), <<>>, t3) = result

\* a returned text that the rules had changed in the second and third pass
C2_Witness ==
  /\ pc = "done"
  /\ loop_cnt = 3
  /\ result = <<"t","0"," ","a","a"," ","n","g"," ","n","n"," ","i","i">>

\* C3: for a Hangul codepoint c the zero-based indices that graph2phone
\* reads the tables with are (offset div 588, (offset mod 588) div 28,
\* offset mod 28) for offset = c - 0xAC00, within 0..18, 0..20 and 0..27,
\* no table read is out of range, and 0xAC00 gives (0, 0, 0).
C3_DecompositionInRange ==
  /\ pc # "IndexError@graph2phone"
  /\ (pc = "graph2phone" /\ iElement >= 1 /\ HangulSyllable(graphs[iElement]))
       => LET offset == graphs[iElement] - 44032
          IN /\ iONS - 1 = offset \div 588
             /\ iNUC - 1 = (offset % 588) \div 28
             /\ iCOD - 1 = offset % 28
             /\ iONS - 1 \in 0..18
             /\ iNUC - 1 \in 0..20
             /\ iCOD - 1 \in 0..27
             /\ (graphs[iElement] = 44032
                   => iONS - 1 = 0 /\ iNUC - 1 = 0 /\ iCOD - 1 = 0)

\* the last syllable of the block, 0xD7A3, decomposed into (18, 20, 27)
C3_Witness ==
  /\ pc = "graph2phone"
  /\ iElement = 1
  /\ graphs = <<55203>>
  /\ iONS = 19 /\ iNUC = 21 /\ iCOD = 28

\* the well-formed results: empty, or two-character tokens of the closed
\* alphabet with exactly one space between neighbours
TokenAlphabet ==
  {ONS[n] : n \in 1..Len(ONS)} \cup {NUC[n] : n \in 1..Len(NUC)}
    \cup {COD[n] : n \in 2..Len(COD)} \cup {<<"n","g">>}

WellFormed(r) ==
  \/ r = <<>>
  \/ /\ Len(r) % 3 = 2
     /\ \A n \in 1..Len(r) :
          IF n % 3 = 0 THEN r[n] = " "
          ELSE IF n % 3 = 1 THEN <<r[n], r[n + 1]>> \in TokenAlphabet
          ELSE TRUE

\* C4: the text returned by runKoG2P is empty or a sequence of tokens of
\* the closed alphabet separated by single spaces, with no '-', '#', ','
\* and no space at either end.
C4_ResultWellFormed == pc = "done" => WellFormed(result)

\* two spaces before a syllable: the text returned is 't 0a ak'
C4_Failure ==
  /\ pc = "done"
  /\ graphs = <<32, 32, 45798>>
  /\ result = <<"t"," ","0","a"," ","a","k">>

\* C5: for a text without any Hangul syllable graph2phone returns the
\* empty string and runKoG2P returns the empty string.
C5_NoHangulEmpty ==
  (\A n \in 1..Len(graphs) : ~HangulSyllable(graphs[n]))
    => /\ pc \notin {"IndexError@graph2phone", "IndexError@addPhoneBoundary"}
       /\ (GraphReturned => romanized = <<>>)
       /\ (pc = "done" => result = <<>>)

\* runKoG2P has returned on a text of spaces and a letter
C5_Witness ==
  pc = "done" /\ graphs = <<32, 97, 32>> /\ romanized = <<>> /\ result = <<>>

\* a text without the characters that are neither Hangul nor a space
RECURSIVE Kept(_)
Kept(text) ==
  IF text = <<>> THEN <<>>
  ELSE (IF Head(text) = 32 \/ HangulSyllable(Head(text)) THEN <<Head(text)>>
        ELSE <<>>) \o Kept(Tail(text))

\* C6: graph2phone raises on no text, and its result is the result for the
\* text with every character that is neither Hangul nor a space deleted.
C6_OthersIgnored ==
  /\ pc # "IndexError@graph2phone"
  /\ (pc = "addPhoneBoundary" /\ ipos = 0)
       => romanized = graph2phone(Kept(graphs))

\* a letter between two syllables left no trace
C6_Witness ==
  /\ pc = "addPhoneBoundary"
  /\ graphs = <<44032, 97, 44032>>
  /\ romanized = <<"k","0","a","a","-","k","0","a","a">>

\* two Hangul syllables with nothing but one or more spaces between them
TwoWords(text) ==
  /\ Len(text) >= 3
  /\ HangulSyllable(text[1])
  /\ HangulSyllable(text[Len(text)])
  /\ \A n \in 2..(Len(text) - 1) : text[n] = 32

\* C7: for two syllables separated only by spaces the result of
\* graph2phone has a '#' and no '-' between the tokens of the two.
C7_WordBoundaryKept ==
  (GraphReturned /\ TwoWords(graphs))
    => LET between == SelectSeq(romanized, IsMarker)
       IN /\ \E n \in 1..Len(between) : between[n] = "#"
          /\ \A n \in 1..Len(between) : between[n] # "-"

\* a syllable of coda index 21, a space and a syllable: the '#' is gone
C7_Failure ==
  /\ pc = "addPhoneBoundary"
  /\ graphs = <<44053, 32, 44032>>
  /\ romanized = <<"k","0","a","a","n","g","-","k","0","a","a">>

\* the tokens a syllable is to give: no onset for index 11, 'ng' for the
\* coda of index 21
SyllableTokens(c) ==
  LET offset == c - 44032
      o == offset \div 588
      v == (offset % 588) \div 28
      f == offset % 28
  IN (IF o = 11 THEN <<>> ELSE <<ONS[o + 1]>>)
     \o <<NUC[v + 1]>>
     \o (IF f = 0 THEN <<>>
         ELSE IF f = 21 THEN << <<"n","g">> >>
         ELSE <<COD[f + 1]>>)

RECURSIVE TextTokens(_)
TextTokens(text) ==
  IF text = <<>> THEN <<>>
  ELSE (IF HangulSyllable(Head(text)) THEN SyllableTokens(Head(text))
        ELSE <<>>) \o TextTokens(Tail(text))

\* C8: 'oh' is no token of a graph2phone result: a syllable of onset
\* index 11 gives its nucleus and its coda only, one of coda index 21
\* gives 'ng' for its coda.
C8_NullOnsetAndNasal ==
  GraphReturned
    => /\ Len(SelectSeq(romanized, NotMarker)) % 2 = 0
       /\ Tokens(romanized) = TextTokens(graphs)
       /\ \A n \in 1..Len(Tokens(romanized)) :
            Tokens(romanized)[n] # <<"o","h">>

\* two syllables of onset index 11 and coda index 21
C8_Witness ==
  /\ pc = "addPhoneBoundary"
  /\ graphs = <<50521, 50521>>
  /\ romanized = <<"a","a","n","g","-","a","a","n","g">>

\* p with a ',' behind each two-character token, the markers in place
RECURSIVE Delimited(_)
Delimited(p) ==
  IF Len(p) = 0 THEN <<>>
  ELSE IF IsMarker(Head(p)) THEN <<Head(p)>> \o Delimited(Tail(p))
  ELSE IF Len(p) = 1 THEN p
  ELSE <<p[1], p[2], ",">> \o Delimited(SubSeq(p, 3, Len(p)))

\* C9: addPhoneBoundary(p) is p with a ',' behind each token and every
\* marker in place; without its ',' it is p again.
C9_BoundariesAdded ==
  /\ pc # "IndexError@addPhoneBoundary"
  /\ pc = "phone2prono"
       => /\ romanized_bd = Delimited(romanized)
          /\ SelectSeq(romanized_bd, NotComma) = romanized

\* two leading spaces: the pairs are cut one character late, an 'a' is lost
C9_Failure ==
  /\ pc = "phone2prono"
  /\ graphs = <<32, 32, 50500>>
  /\ romanized = <<"#","#","a","a">>
  /\ romanized_bd = <<"#","#","a",",">>

\* C10: the result of graph2phone neither begins nor ends with '-' or '#'.
C10_NoDanglingMarker ==
  (GraphReturned /\ romanized # <<>>)
    => /\ NotMarker(romanized[1])
       /\ NotMarker(romanized[Len(romanized)])

\* a leading space leaves its '#' at the head of the result
C10_Failure ==
  /\ pc = "addPhoneBoundary"
  /\ graphs = <<32, 44032>>
  /\ romanized = <<"#","k","0","a","a">>

====
